---- MODULE Spec2Model ----
(***************************************************************************)
(* Orchestration engine of math_recursion: the tree of bots (L1 document,  *)
(* L2 section, L3 subsection, L4 math block, ReviewBot), the leaf          *)
(* scheduler get_leaves, the two driver loops of main.py and the label     *)
(* allocator LabelManager.                                                 *)
(*                                                                         *)
(* A bot is identified by its place of creation: the root L1 bot is <<>>,  *)
(* and the idx-th child made by the gen-th fan-out of bot p is             *)
(* p \o <<gen, idx>>.  Text produced by the generation service is          *)
(* abstracted to what the code reads of it: the parsed instruction list,   *)
(* COMPLETE / ACCEPT on the final line, the presence of a title header.    *)
(***************************************************************************)
EXTENDS Integers, Sequences, FiniteSets, TLC

VARIABLES
    Config,           \* the Config class attributes the engine reads
    bots,             \* live bot objects: id -> fields
    existing_labels,  \* LabelManager.existing_labels
    pc,               \* position of the driver loop of main.py
    pending,          \* parallel_updates: tasks of the round not yet finished
    spun,             \* the driver loop has iterated with an empty leaf list
    event,            \* the last step() call: node, phase run, error raised
    lock,             \* LabelManager.lock: its holder, or 0
    caller,           \* get_label / check_label / llm_call coroutines in flight
    script,           \* the fixed answers of a replayed run, when there is one
    twin              \* the terminal tree of the run made before the replay, <<>> if none

vars == <<Config, bots, existing_labels, pc, pending, spun, event, lock, caller,
          script, twin>>

----------------------------------------------------------------------------
(* Bounds of the model *)

\* instructions of one fan-out response (and titles they are drawn from)
\* under a configuration with every cap and candidate number at 1
MaxInstr == 2
\* the same under the other configurations
MaxInstrRaised == 1
\* caps and candidate numbers of a configuration that are above 1
MaxAbove1 == 2
\* the same, for the runs in which step() is also called from outside
MaxAbove1Api == 1
\* bots alive at one time
MaxBots == 7
\* fan-outs one bot may perform (an L3 bot restarts without limit)
MaxFanOuts == 2
\* fan-outs that made a tree handed to get_leaves
MaxTreeFanOuts == 4
\* characters of the label alphabet (string.ascii_letters + string.digits)
AlphabetSize == 2
\* labels of one generated subsection draft that the registry does not know
MaxDraftLabels == 1
\* coroutines calling the LabelManager at the same time
MaxCallers == 2
\* calls one of these coroutines makes
MaxCalls == 2
\* NUM_LABEL_CHAR of the runs of the LabelManager alone
MaxLabelChar == 2
\* the length of a starting document, in symbols
MaxDocLen == 4
\* symbols of the drafts of the L3 bots that rewrite their labels, in all
MaxDraftLen == 7

\* the significant bits of a float in the model (binary64 has 53)
Mantissa == 10
\* candidates of one tournament
MaxCandidates == 4
\* Config.MAX_RETRIES of the runs of llm_call alone (config.py sets 5)
MaxRetries == 5
\* Config.BACKOFF_FACTOR of these runs, in seconds (config.py sets 1.0)
MaxBackoff == 3
\* llm_call coroutines in flight at the same time
MaxLlmCalls == 2

----------------------------------------------------------------------------
(* Generic helpers *)

Range(s) == {s[i] : i \in DOMAIN s}

IsPrefix(p, s) == Len(p) <= Len(s) /\ SubSeq(s, 1, Len(p)) = p

\* the function f, enumerated
Table(f) == f @@ <<>>

RECURSIVE SeqSum(_)
SeqSum(s) == IF s = <<>> THEN 0 ELSE Head(s) + SeqSum(Tail(s))

----------------------------------------------------------------------------
(* Configuration (src/config.py).  The engine reads these class attributes *)
(* at run time; a run is made under one configuration.                     *)

\* every configuration with caps and candidate numbers 1 or 2
AllConfigs ==
    [ L1_REASONING_STEPS : 1..2, L2_REASONING_STEPS : 1..2,
      L3_REASONING_STEPS : 1..2, L4_REASONING_STEPS : 1..2,
      NUM_L2_BOTS : 1..2, NUM_L3_BOTS : 1..2, NUM_L4_BOTS : 1..2,
      NUM_REVIEWERS : 1..2, PARALLEL : BOOLEAN, NUM_LABEL_CHAR : 1..1 ]

\* the number of caps and candidate numbers of c that are above 1
Above1(c) ==
    SeqSum(<<c.L1_REASONING_STEPS, c.L2_REASONING_STEPS, c.L3_REASONING_STEPS,
             c.L4_REASONING_STEPS, c.NUM_L2_BOTS, c.NUM_L3_BOTS, c.NUM_L4_BOTS,
             c.NUM_REVIEWERS>>) - 8

\* the configurations a run is started under: at most MaxAbove1 of the caps
\* and candidate numbers are above 1, under either execution policy
Configs == {c \in AllConfigs : Above1(c) <= MaxAbove1}

----------------------------------------------------------------------------
(* Bot objects *)

root == <<>>

\* an instruction attribute a bot does not have (getattr default None)
None == 0

\* an artifact: "N/A", text given at construction, or generated text;
\* title is the title of the \section / \subsection header found in it (0: no
\* header), src the bot whose phase generated the text
NoArtifact == [kind |-> "N/A", title |-> 0, src |-> root]

\* the value None stored in math_drafts
NoneDraft == [kind |-> "None", title |-> 0, src |-> root]

Artifact(kind, title, src) == [kind |-> kind, title |-> title, src |-> src]

\* the fields every constructor sets (L1Bot, L2Bot, L3Bot, L4Bot, ReviewBot
\* __init__); a field a class does not have keeps the value given here
NewBot(level, key, artifact) ==
    [ level |-> level,
      key |-> key,                    \* (L2_instruction, L3_instruction, L4_instruction)
      artifact |-> artifact,          \* document / section / subsection / math draft
      children |-> <<>>,
      round_robin |-> <<>>,
      blocks |-> <<>>,                \* section_blocks, subsection_blocks, math_drafts
      final_decision_response |-> IF level = "L3" THEN "" ELSE "N/A",
      restart |-> FALSE,
      iterations |-> 0,
      done |-> FALSE,
      incomplete |-> (level = "L4"),
      accepted |-> FALSE,
      current_llm_call_index |-> 0,
      fanouts |-> 0 ]                 \* number of times this bot made children

\* the id of the idx-th child made by the next fan-out of bot n
ChildId(b, n, idx) == n \o <<b[n].fanouts, idx>>

\* the table after bot n's children list became kids: objects no longer
\* referenced from the tree are dropped
Collect(b, n, kids) ==
    LET keep == {m \in DOMAIN b :
                    ~IsPrefix(n, m) \/ m = n
                    \/ \E i \in DOMAIN kids : IsPrefix(kids[i], m)}
    IN  Table([m \in keep |-> IF m = n THEN [b[n] EXCEPT !.children = kids] ELSE b[m]])

----------------------------------------------------------------------------
(* The tree scheduler: get_leaves (src/main.py) *)

\* the children of n whose grouping key is that of child c (one group of the
\* dictionary `groups`)
GroupOf(b, n, c) == {d \in Range(b[n].children) : b[d].key = b[c].key}

\* a group with more than one member, one of them done: all are marked done
GroupForced(b, n, c) ==
    /\ Cardinality(GroupOf(b, n, c)) > 1
    /\ \E d \in GroupOf(b, n, c) : b[d].done

\* a grouping pass that marks nothing
NoPropagate(b, n) == b

\* a grouping pass that assigns every child the flag of its group
PropagateBoth(b, n) ==
    Table([m \in DOMAIN b |->
              IF m \in Range(b[n].children)
              THEN [b[m] EXCEPT !.done = GroupForced(b, n, m)]
              ELSE b[m]])

\* a grouping pass that takes all the children of a bot for one group
PropagateAcross(b, n) ==
    Table([m \in DOMAIN b |->
              IF /\ m \in Range(b[n].children)
                 /\ Len(b[n].children) > 1
                 /\ \E d \in Range(b[n].children) : b[d].done
              THEN [b[m] EXCEPT !.done = TRUE]
              ELSE b[m]])

\* lines 43-58: the done flags after the grouping pass over the children of n
Propagate(b, n) ==
    Table([m \in DOMAIN b |->
              IF m \in Range(b[n].children) /\ GroupForced(b, n, m)
              THEN [b[m] EXCEPT !.done = TRUE]
              ELSE b[m]])

\* a leaf test that is content with one done child
IsLeafAny(b, n) ==
    b[n].children = <<>> \/ \E c \in Range(b[n].children) : b[c].done

\* lines 63-66: no children, or every child done
IsLeaf(b, n) ==
    b[n].children = <<>> \/ \A c \in Range(b[n].children) : b[c].done

\* get_leaves(level_bot): the leaves in traversal order, the bot table with
\* the done flags it set, and the bots whose children it grouped
RECURSIVE get_leaves(_, _)
RECURSIVE LeavesOfChildren(_, _, _)

\* a traversal without lines 36-38, which goes on into a done bot
LeavesOfDone(b, n) ==
    LET b1 == Propagate(b, n)
    IN  IF IsLeaf(b1, n)
        THEN [leaves |-> <<n>>, bots |-> b1, visited |-> {n}]
        ELSE LET r == LeavesOfChildren(b1, b1[n].children, 1)
             IN  [r EXCEPT !.visited = @ \cup {n}]

\* a traversal that reports a leaf twice
LeavesTwice(b, n) ==
    IF b[n].done
    THEN [leaves |-> <<>>, bots |-> b, visited |-> {}]
    ELSE LET b1 == Propagate(b, n)
         IN  IF IsLeaf(b1, n)
             THEN [leaves |-> <<n, n>>, bots |-> b1, visited |-> {n}]
             ELSE LET r == LeavesOfChildren(b1, b1[n].children, 1)
                  IN  [r EXCEPT !.visited = @ \cup {n}]

\* a traversal that takes only a bot without children for a leaf
LeavesOfChildless(b, n) ==
    IF b[n].done
    THEN [leaves |-> <<>>, bots |-> b, visited |-> {}]
    ELSE LET b1 == Propagate(b, n)
         IN  IF b1[n].children = <<>>
             THEN [leaves |-> <<n>>, bots |-> b1, visited |-> {n}]
             ELSE LET r == LeavesOfChildren(b1, b1[n].children, 1)
                  IN  [r EXCEPT !.visited = @ \cup {n}]

get_leaves(b, n) ==
    IF b[n].done
    THEN [leaves |-> <<>>, bots |-> b, visited |-> {}]
    ELSE CHOOSE v \in {
             IF IsLeaf(b1, n)
             THEN [leaves |-> <<n>>, bots |-> b1, visited |-> {n}]
             ELSE [LeavesOfChildren(b1, b1[n].children, 1)
                      EXCEPT !.visited = @ \cup {n}] :
             b1 \in {Propagate(b, n)}} : TRUE

\* lines 69-73: the loop over the children, each call seeing the flags set by
\* the calls before it
LeavesOfChildren(b, kids, i) ==
    IF i > Len(kids)
    THEN [leaves |-> <<>>, bots |-> b, visited |-> {}]
    ELSE CHOOSE v \in UNION {
             {[leaves  |-> first.leaves \o rest.leaves,
               bots    |-> rest.bots,
               visited |-> first.visited \cup rest.visited] :
                  rest \in {LeavesOfChildren(first.bots, kids, i + 1)}} :
             first \in {get_leaves(b, kids[i])}} : TRUE

---------------------------------------------------------------------------------------------------------------------------------------------------
(* The tournament engine: _create_round_robin and                          *)
(* _compute_round_robin_winners (L1_bot.py, L2_bot.py, L3_bot.py).         *)
(* Ratings and scores are Python floats.  A float is kept here as a whole  *)
(* number of units of 1/Unit, and every arithmetic operation rounds its    *)
(* exact result to the nearest float of Mantissa significant bits, ties to *)
(* even, as IEEE 754 arithmetic does (with 53 bits in binary64).           *)

\* K = 32: the Elo update factor
K == 32

\* one is Unit units: floats are whole multiples of 2^-14
Unit == 16384

\* the entries of Pow10Table are in units of 1 / (Unit * PowScale) = 2^-20
PowScale == 64

\* the largest rating difference, in points, that Pow10Table covers
PowSpan == 128

\* 10 ** (d / 400) for d = -PowSpan .. PowSpan, before it is rounded to a
\* float
Pow10Table ==
    << 501880, 504777, 507692, 510622, 513570, 516535, 519517, 522516, 525533, 528567,
       531618, 534687, 537774, 540879, 544001, 547142, 550301, 553477, 556673, 559886,
       563119, 566370, 569639, 572928, 576235, 579562, 582908, 586273, 589658, 593062,
       596486, 599929, 603393, 606876, 610379, 613903, 617447, 621012, 624597, 628203,
       631830, 635477, 639146, 642836, 646547, 650279, 654033, 657809, 661607, 665426,
       669268, 673131, 677018, 680926, 684857, 688811, 692787, 696787, 700809, 704855,
       708924, 713017, 717133, 721273, 725437, 729625, 733838, 738074, 742335, 746621,
       750931, 755266, 759626, 764012, 768422, 772858, 777320, 781808, 786321, 790861,
       795426, 800018, 804637, 809282, 813954, 818653, 823379, 828133, 832914, 837722,
       842558, 847422, 852315, 857235, 862184, 867161, 872168, 877203, 882267, 887360,
       892483, 897635, 902817, 908029, 913272, 918544, 923847, 929180, 934544, 939940,
       945366, 950824, 956313, 961834, 967386, 972971, 978588, 984238, 989920, 995634,
       1001382, 1007163, 1012978, 1018826, 1024707, 1030623, 1036573, 1042557, 1048576, 1054629,
       1060718, 1066842, 1073000, 1079195, 1085425, 1091691, 1097994, 1104333, 1110708, 1117120,
       1123569, 1130056, 1136580, 1143141, 1149741, 1156378, 1163054, 1169768, 1176522, 1183314,
       1190145, 1197016, 1203926, 1210877, 1217867, 1224898, 1231969, 1239082, 1246235, 1253430,
       1260666, 1267944, 1275263, 1282626, 1290030, 1297478, 1304968, 1312502, 1320079, 1327700,
       1335365, 1343074, 1350828, 1358626, 1366469, 1374358, 1382292, 1390272, 1398299, 1406371,
       1414490, 1422656, 1430869, 1439130, 1447438, 1455794, 1464198, 1472651, 1481153, 1489704,
       1498304, 1506954, 1515653, 1524403, 1533204, 1542055, 1550958, 1559911, 1568917, 1577974,
       1587084, 1596246, 1605462, 1614730, 1624052, 1633428, 1642858, 1652342, 1661881, 1671475,
       1681125, 1690830, 1700591, 1710409, 1720283, 1730214, 1740203, 1750249, 1760354, 1770516,
       1780738, 1791018, 1801358, 1811757, 1822216, 1832736, 1843317, 1853958, 1864661, 1875426,
       1886253, 1897142, 1908095, 1919110, 1930189, 1941332, 1952540, 1963812, 1975149, 1986552,
       1998020, 2009555, 2021156, 2032825, 2044560, 2056364, 2068235, 2080175, 2092184, 2104262,
       2116411, 2128629, 2140917, 2153277, 2165708, 2178211, 2190786 >>

\* x / y rounded to the nearest integer, halves away from zero
RoundDiv(x, y) ==
    IF x >= 0 THEN (2 * x + y) \div (2 * y) ELSE -((2 * (-x) + y) \div (2 * y))

\* the distance between neighbouring floats at magnitude v (in units)
RECURSIVE Ulp(_)
Ulp(v) == IF v < 2 ^ Mantissa THEN 1 ELSE 2 * Ulp(v \div 2)

\* num / den rounded to the nearest integer, ties to the even one
RoundEven(num, den) ==
    LET q == num \div den
        r == num % den
    IN  IF 2 * r > den \/ (2 * r = den /\ q % 2 = 1) THEN q + 1 ELSE q

\* the float nearest to num / den units (den > 0): the result of a float
\* operation whose exact value is num / den (n and d hold the operands,
\* evaluated once)
Fl(num, den) ==
    CHOOSE v \in {LET a == IF n >= 0 THEN n ELSE -n
                      u == Ulp(a \div d)
                      m == u * RoundEven(a, d * u)
                  IN  IF n >= 0 THEN m ELSE -m : n \in {num}, d \in {den}} : TRUE

\* 10 ** (d / 400) for a rating difference of d units
Pow10(d) ==
    LET pts == RoundDiv(d, Unit)
        at  == IF pts > PowSpan THEN PowSpan
               ELSE IF pts < -PowSpan THEN -PowSpan ELSE pts
    IN  Fl(Pow10Table[at + PowSpan + 1], PowScale)

\* e1 = 1 / (1 + 10 ** ((r2 - r1) / 400)) for ratings r1, r2
Expected(r1, r2) == Fl(Unit * Unit, Fl(Unit + Pow10(r2 - r1), 1))

\* the scores (s1, s2) of a match result: 1 first wins, 2 second wins,
\* anything else a tie
Scores(result) ==
    IF result = 1 THEN <<Unit, 0>>
    ELSE IF result = 2 THEN <<0, Unit>>
    ELSE <<Unit \div 2, Unit \div 2>>

\* the rating after one match when the expectation is left out: r + K * s
Rewarded(r, s, e) == Fl(r + Fl(K * s, 1), 1)

\* the rating after one match: r + K * (s - e)
Updated(r, s, e) == Fl(r + Fl(K * Fl(s - e, 1), 1), 1)

\* the loop over self.round_robin when it ends at the first match that names
\* a bot without a rating
RECURSIVE RatingsUntilStale(_, _, _)
RatingsUntilStale(ratings, rr, i) ==
    IF i > Len(rr) THEN ratings
    ELSE LET m == rr[i]
         IN  IF m.bot1 \in DOMAIN ratings /\ m.bot2 \in DOMAIN ratings
             THEN LET r1 == ratings[m.bot1]
                      r2 == ratings[m.bot2]
                      s  == Scores(m.result)
                      n1 == Updated(r1, s[1], Expected(r1, r2))
                      n2 == Updated(r2, s[2], Expected(r2, r1))
                      a  == [ratings EXCEPT ![m.bot1] = n1]
                  IN  RatingsUntilStale([a EXCEPT ![m.bot2] = n2], rr, i + 1)
             ELSE ratings

\* the loop over self.round_robin: a match is processed only when both its
\* bots have a rating (t holds the ratings so far, evaluated once)
RECURSIVE RatingsAfter(_, _, _)
RatingsAfter(ratings, rr, i) ==
    CHOOSE v \in {
        IF i > Len(rr) THEN t
        ELSE LET m == rr[i]
             IN  IF m.bot1 \in DOMAIN t /\ m.bot2 \in DOMAIN t
                 THEN LET r1 == t[m.bot1]
                          r2 == t[m.bot2]
                          s  == Scores(m.result)
                          n1 == Updated(r1, s[1], Expected(r1, r2))
                          n2 == Updated(r2, s[2], Expected(r2, r1))
                          a  == [t EXCEPT ![m.bot1] = n1]
                      IN  RatingsAfter([a EXCEPT ![m.bot2] = n2], rr, i + 1)
                 ELSE RatingsAfter(t, rr, i + 1) : t \in {ratings}} : TRUE

\* ratings = {bot: 1500 ...} over the current children, then the matches
Ratings(kids, rr) ==
    RatingsAfter(Table([c \in Range(kids) |-> 1500 * Unit]), rr, 1)

\* the last candidate, whatever the ratings
LastOf(cands, ratings) == cands[Len(cands)]

\* the last candidate of highest rating
RECURSIVE LastMaxBy(_, _)
LastMaxBy(cands, ratings) ==
    IF Len(cands) = 1 THEN cands[1]
    ELSE LET best == LastMaxBy(Tail(cands), ratings)
         IN  IF ratings[cands[1]] > ratings[best] THEN cands[1] ELSE best

\* max(candidates, key=rating): the first candidate of highest rating
RECURSIVE MaxBy(_, _)
MaxBy(cands, ratings) ==
    IF Len(cands) = 1 THEN cands[1]
    ELSE LET best == MaxBy(Tail(cands), ratings)
         IN  IF ratings[cands[1]] >= ratings[best] THEN cands[1] ELSE best

\* the instruction the children of a bot of this level are grouped by:
\* L2_instruction under L1, L3_instruction under L2, L4_instruction under L3
Intent(b, level, c) ==
    IF level = "L1" THEN b[c].key[1]
    ELSE IF level = "L2" THEN b[c].key[2]
    ELSE b[c].key[3]

\* the keys of a defaultdict(list) filled from kids, in insertion order
RECURSIVE IntentsOf(_, _, _)
IntentsOf(b, level, kids) ==
    IF kids = <<>> THEN <<>>
    ELSE LET front == IntentsOf(b, level, SubSeq(kids, 1, Len(kids) - 1))
             k     == Intent(b, level, kids[Len(kids)])
         IN  IF k \in Range(front) THEN front ELSE Append(front, k)

\* groups[k]: the bots of kids with instruction k, in order
RECURSIVE Group(_, _, _, _)
Group(b, level, kids, k) ==
    IF kids = <<>> THEN <<>>
    ELSE IF Intent(b, level, Head(kids)) = k
         THEN <<Head(kids)>> \o Group(b, level, Tail(kids), k)
         ELSE Group(b, level, Tail(kids), k)

\* the sublist of bots that are not incomplete
RECURSIVE Complete(_, _)
Complete(b, kids) ==
    IF kids = <<>> THEN <<>>
    ELSE IF ~b[Head(kids)].incomplete
         THEN <<Head(kids)>> \o Complete(b, Tail(kids))
         ELSE Complete(b, Tail(kids))

\* the candidates _create_round_robin pairs: every child in L1 and L2, the
\* complete children in L3
Candidates(b, n) ==
    IF b[n].level = "L3" THEN Complete(b, b[n].children) ELSE b[n].children

\* the pairs of neighbours of one group only
PairsOfNeighbours(group, i, j) ==
    [p \in 1..(Len(group) - 1) |-> <<group[p], group[p + 1]>>]

\* for i in range(len(bots)): for j in range(i + 1, len(bots)): the pairs of
\* one group, in creation order
RECURSIVE PairsFrom(_, _, _)
PairsFrom(group, i, j) ==
    IF i >= Len(group) THEN <<>>
    ELSE IF j > Len(group) THEN PairsFrom(group, i + 1, i + 2)
    ELSE <<(<<group[i], group[j]>>)>> \o PairsFrom(group, i, j + 1)

\* the pairs of every group with more than one bot, group by group
RECURSIVE PairsOfGroups(_, _, _, _)
PairsOfGroups(b, level, cands, intents) ==
    IF intents = <<>> THEN <<>>
    ELSE LET g == Group(b, level, cands, Head(intents))
         IN  (IF Len(g) > 1 THEN PairsFrom(g, 1, 2) ELSE <<>>)
             \o PairsOfGroups(b, level, cands, Tail(intents))

\* the pairs _create_round_robin of bot n makes matches for
NewPairs(b, n) ==
    PairsOfGroups(b, b[n].level, Candidates(b, n),
                  IntentsOf(b, b[n].level, Candidates(b, n)))

\* the results a match may carry: 1 first wins, 2 second wins, 3 tie
MatchResults == {1, 2, 3}

\* L2RoundRobin / L3RoundRobin / L4RoundRobin(bot1, bot2): a match and its
\* result, produced once by an external judgment
NewMatch(pair, result) == [bot1 |-> pair[1], bot2 |-> pair[2], result |-> result]

\* _create_round_robin of bot n; results[i] is the judgment of the i-th new
\* match.  L1 and L2 start from an empty list, L3 appends to the list it has.
CreateRoundRobin(b, n, results) ==
    LET pairs == NewPairs(b, n)
        new   == Table([i \in 1..Len(pairs) |-> NewMatch(pairs[i], results[i])])
        old   == IF b[n].level = "L3" THEN b[n].round_robin ELSE <<>>
    IN  [b EXCEPT ![n].round_robin = old \o new]

\* the intents of bot n's children for which random.choice decides the
\* winner: L3 groups without a complete bot
ChoiceIntents(b, n) ==
    IF b[n].level # "L3" THEN {}
    ELSE {k \in Range(IntentsOf(b, "L3", b[n].children)) :
             Complete(b, Group(b, "L3", b[n].children, k)) = <<>>}

\* winners[instr] of one group; choice[k] is the index random.choice draws
Winner(b, n, ratings, k, choice) ==
    LET g == Group(b, b[n].level, b[n].children, k)
        eligible == IF b[n].level = "L3" THEN Complete(b, g) ELSE g
    IN  IF eligible # <<>> THEN MaxBy(eligible, ratings)
        ELSE g[((choice[k] - 1) % Len(g)) + 1]

\* the first member of every group, whatever its rating or completeness
FirstMembers(b, n, choice) ==
    LET intents == IntentsOf(b, b[n].level, b[n].children)
    IN  Table([i \in 1..Len(intents) |->
                  Group(b, b[n].level, b[n].children, intents[i])[1]])

\* list(winners.values()): the new children list of bot n
Winners(b, n, choice) ==
    CHOOSE v \in {
        Table([i \in 1..Len(intents) |-> Winner(b, n, ratings, intents[i], choice)]) :
        intents \in {IntentsOf(b, b[n].level, b[n].children)},
        ratings \in {Ratings(b[n].children, b[n].round_robin)}} : TRUE

\* _compute_round_robin_winners of bot n
ComputeRoundRobinWinners(b, n, choice) == Collect(b, n, Winners(b, n, choice))

----------------------------------------------------------------------------
(* The phase sequences: llm_call_sequence of each step() *)

RoundRobinPhase(num) == IF num > 1 THEN <<"_create_round_robin">> ELSE <<>>

PhaseSeq(level) ==
    IF level = "L1" THEN
        <<"_preliminary_reasoning", "_section_reasoning_list",
          "_format_instructions_for_L2">>
        \o RoundRobinPhase(Config.NUM_L2_BOTS)
        \o <<"_draft_document_code", "_final_decision">>
    ELSE IF level = "L2" THEN
        <<"_preliminary_reasoning", "_generate_subsection_list",
          "_format_instructions_for_L3_bots">>
        \o RoundRobinPhase(Config.NUM_L3_BOTS)
        \o <<"_draft_section_code", "_final_decision_for_section">>
    ELSE IF level = "L3" THEN
        <<"_reasoning_step_A", "_reasoning_step_B", "_reasoning_step_C",
          "_generate_math_list", "_format_instructions_for_L4_bots">>
        \o RoundRobinPhase(Config.NUM_L4_BOTS)
        \o <<"_draft_subsection_code", "_final_decision_for_subsection">>
    ELSE IF level = "L4" THEN
        <<"_chain_of_thought_reasoning", "_generate_environment_block",
          "_review_evaluation">>
    ELSE
        <<"_sentence_logic_analysis", "_claims_verification", "_list_errors",
          "_verify_errors", "_final_summary">>

\* the phase function the next step() of bot n calls
PhaseOf(b, n) == PhaseSeq(b[n].level)[b[n].current_llm_call_index + 1]

\* Lx_REASONING_STEPS of a level (ReviewBot has no cap)
Cap(level) ==
    IF level = "L1" THEN Config.L1_REASONING_STEPS
    ELSE IF level = "L2" THEN Config.L2_REASONING_STEPS
    ELSE IF level = "L3" THEN Config.L3_REASONING_STEPS
    ELSE Config.L4_REASONING_STEPS

\* the number of candidates made per instruction by a bot of this level
NumCandidates(level) ==
    IF level = "L1" THEN Config.NUM_L2_BOTS
    ELSE IF level = "L2" THEN Config.NUM_L3_BOTS
    ELSE Config.NUM_L4_BOTS

ChildLevel(level) ==
    IF level = "L1" THEN "L2"
    ELSE IF level = "L2" THEN "L3"
    ELSE IF level = "L3" THEN "L4"
    ELSE "Review"

FanOutPhases ==
    {"_format_instructions_for_L2", "_format_instructions_for_L3_bots",
     "_format_instructions_for_L4_bots"}

FinalPhases ==
    {"_final_decision", "_final_decision_for_section",
     "_final_decision_for_subsection"}

----------------------------------------------------------------------------
(* Dictionaries (section_blocks, subsection_blocks, math_drafts) *)

Put(f, k, v) == Table([x \in DOMAIN f \cup {k} |-> IF x = k THEN v ELSE f[x]])

\* f.get(k, "N/A")
GetOrNA(f, k) == IF k \in DOMAIN f THEN f[k] ELSE NoArtifact

\* a filter that discards nothing
KeepAll(f, keys) == f

\* {title: block for title, block in blocks.items() if title in keys}
Restrict(f, keys) == Table([x \in DOMAIN f \cap keys |-> f[x]])

----------------------------------------------------------------------------
(* The phase functions.  Each takes the bot table b, the label registry,   *)
(* the bot n and the response r of the generation service (and of the      *)
(* random draws) to this phase, and gives the new table and registry,      *)
(* whether llm_call was awaited, and the children whose artifact the phase *)
(* took into the bot's own blocks.                                         *)

Result(b, labels, llm, integrated) ==
    [bots |-> b, labels |-> labels, llm |-> llm, integrated |-> integrated]

\* a phase that only stores the generated text in a scratch field
\* (_preliminary_reasoning, _reasoning_step_A, _chain_of_thought_reasoning,
\* _sentence_logic_analysis, ...)
Think(b, labels, n) == Result(b, labels, TRUE, {})

\* the instruction attributes of a child made for instruction i
ChildKey(b, n, i) ==
    IF b[n].level = "L1" THEN <<i, None, None>>
    ELSE IF b[n].level = "L2" THEN <<b[n].key[1], i, None>>
    ELSE IF b[n].level = "L3" THEN <<b[n].key[1], b[n].key[2], i>>
    ELSE <<None, None, None>>

\* the draft a child made for instruction i starts from: the block of that
\* title, else "N/A" (L2Bot, L3Bot); "N/A" (L4Bot math_draft, ReviewBot summary)
ChildArtifact(b, n, i) ==
    IF b[n].level \in {"L1", "L2"} THEN GetOrNA(b[n].blocks, i) ELSE NoArtifact

\* self.children = [...]: num new bots for each instruction of instrs, in
\* order; the bots of the old list are dropped
MakeChildren(b, n, instrs, num) ==
    LET kids == Table([p \in 1..(Len(instrs) * num) |-> ChildId(b, n, p)])
        base == Collect(b, n, <<>>)
        InstrAt(p) == instrs[((p - 1) \div num) + 1]
    IN  Table([m \in DOMAIN base \cup Range(kids) |->
                  IF m \in Range(kids)
                  THEN NewBot(ChildLevel(b[n].level),
                              ChildKey(b, n, InstrAt(m[Len(m)])),
                              ChildArtifact(b, n, InstrAt(m[Len(m)])))
                  ELSE IF m = n
                  THEN [base[n] EXCEPT !.children = kids, !.fanouts = @ + 1]
                  ELSE base[m]])

\* _format_instructions_for_L2 / _for_L3_bots / _for_L4_bots: parse the
\* instruction list out of the response and instantiate the children
FormatInstructions(b, labels, n, r) ==
    Result(MakeChildren(b, n, r.instrs, NumCandidates(b[n].level)),
           labels, TRUE, {})

\* _create_round_robin (no llm_call of its own)
RoundRobin(b, labels, n, r) ==
    Result(CreateRoundRobin(b, n, r.results), labels, FALSE, {})

\* the table after the tournament, when one is configured (the draft phases
\* below hold it in b1, evaluated once)
AfterTournament(b, n, r) ==
    IF NumCandidates(b[n].level) > 1
    THEN ComputeRoundRobinWinners(b, n, r.choice)
    ELSE b

\* for child in self.children: blocks[title] = child draft, for the children
\* whose draft carries a title header
RECURSIVE MergeBlocks(_, _, _)
MergeBlocks(b, blocks, kids) ==
    IF kids = <<>> THEN blocks
    ELSE LET a == b[Head(kids)].artifact
         IN  MergeBlocks(b, IF a.title # 0 THEN Put(blocks, a.title, a) ELSE blocks,
                         Tail(kids))

\* the children whose draft _draft_document_code / _draft_section_code stores
Titled(b, kids) == {c \in Range(kids) : b[c].artifact.title # 0}

\* L1Bot._draft_document_code: r.used are the titles the generated draft
\* refers to
DraftDocument(b, labels, n, r) ==
    CHOOSE v \in {
        LET merged == MergeBlocks(b1, b1[n].blocks, b1[n].children)
        IN  Result([b1 EXCEPT ![n].blocks = Restrict(merged, r.used),
                              ![n].artifact = Artifact("draft", 0, n)],
                   labels, TRUE, Titled(b1, b1[n].children)) :
        b1 \in {AfterTournament(b, n, r)}} : TRUE

\* L2Bot._draft_section_code: r.header tells whether the generated section
\* carries its \section{...} header
DraftSection(b, labels, n, r) ==
    CHOOSE v \in {
        LET merged == MergeBlocks(b1, b1[n].blocks, b1[n].children)
            title  == IF r.header THEN b[n].key[1] ELSE 0
        IN  Result([b1 EXCEPT ![n].blocks = Restrict(merged, r.used),
                              ![n].artifact = Artifact("draft", title, n)],
                   labels, TRUE, Titled(b1, b1[n].children)) :
        b1 \in {AfterTournament(b, n, r)}} : TRUE

\* for child in self.children: math_drafts[instruction] = the draft of a
\* complete child, None for an incomplete one
RECURSIVE MergeDrafts(_, _, _)
MergeDrafts(b, drafts, kids) ==
    IF kids = <<>> THEN drafts
    ELSE LET c == Head(kids)
         IN  MergeDrafts(b,
                         Put(drafts, b[c].key[3],
                             IF ~b[c].incomplete THEN b[c].artifact ELSE NoneDraft),
                         Tail(kids))

\* all(draft is None for draft in self.math_drafts.values())
AllNone(drafts) == \A k \in DOMAIN drafts : drafts[k] = NoneDraft

\* L3Bot._draft_subsection_code: r.labels are the tokens get_label returns
\* for the labels of the generated draft that check_label does not know
DraftSubsection(b, labels, n, r) ==
    CHOOSE v \in {
        LET drafts == MergeDrafts(b1, b1[n].blocks, b1[n].children)
            title  == IF r.header THEN b[n].key[2] ELSE 0
        IN  IF AllNone(drafts)
            THEN Result([b1 EXCEPT ![n].blocks = drafts, ![n].restart = TRUE],
                        labels, FALSE, {})
            ELSE Result([b1 EXCEPT ![n].blocks = drafts,
                                   ![n].artifact = Artifact("draft", title, n)],
                        labels \cup Range(r.labels), TRUE,
                        {c \in Range(b1[n].children) : ~b1[c].incomplete}) :
        b1 \in {AfterTournament(b, n, r)}} : TRUE

\* a final decision that ends the bot on COMPLETE only
FinalDecisionOnComplete(b, labels, n, r) ==
    Result([b EXCEPT ![n].final_decision_response =
                         IF r.complete THEN "COMPLETE" ELSE "CONTINUE",
                     ![n].iterations = @ + 1,
                     ![n].done = IF r.complete THEN TRUE ELSE @],
           labels, TRUE, {})

\* _final_decision (L1), _final_decision_for_section (L2),
\* _final_decision_for_subsection (L3): r.complete tells whether the final
\* line of the response contains COMPLETE
FinalDecision(b, labels, n, r) ==
    LET its == b[n].iterations + 1
    IN  Result([b EXCEPT ![n].final_decision_response =
                             IF r.complete THEN "COMPLETE" ELSE "CONTINUE",
                         ![n].iterations = its,
                         ![n].done = IF r.complete \/ ~(its < Cap(b[n].level))
                                     THEN TRUE ELSE @],
               labels, TRUE, {})

\* L4Bot._generate_environment_block: the draft, then the reviewers
GenerateEnvironmentBlock(b, labels, n) ==
    LET b1 == [b EXCEPT ![n].artifact = Artifact("draft", 0, n)]
    IN  Result(MakeChildren(b1, n, <<None>>, Config.NUM_REVIEWERS),
               labels, TRUE, {})

\* an evaluation that is content with one accepting reviewer
AcceptedByOne(b, n, bot) ==
    IF \E c \in Range(b[n].children) : b[c].accepted
    THEN [bot EXCEPT !.done = TRUE, !.incomplete = FALSE]
    ELSE bot

\* lines 289-291: every reviewer accepted
AcceptedByAll(b, n, bot) ==
    IF \A c \in Range(b[n].children) : b[c].accepted
    THEN [bot EXCEPT !.done = TRUE, !.incomplete = FALSE]
    ELSE bot

\* a bot out of iterations that is marked done and keeps its outcome
OutOfIterationsDone(bot) ==
    IF ~(bot.iterations < Config.L4_REASONING_STEPS)
    THEN [bot EXCEPT !.done = TRUE]
    ELSE bot

\* lines 293-295: out of iterations
OutOfIterations(bot) ==
    IF ~(bot.iterations < Config.L4_REASONING_STEPS)
    THEN [bot EXCEPT !.done = TRUE, !.incomplete = TRUE]
    ELSE bot

\* L4Bot._review_evaluation
ReviewEvaluation(b, labels, n) ==
    LET counted == [b[n] EXCEPT !.iterations = @ + 1]
    IN  Result([b EXCEPT ![n] = OutOfIterations(AcceptedByAll(b, n, counted))],
               labels, TRUE, {})

\* a final summary that, on ACCEPT, also ends the L4 bot it reviews
FinalSummaryEndsParent(b, labels, n, r) ==
    LET up == SubSeq(n, 1, Len(n) - 2)
    IN  Result([m \in DOMAIN b |->
                   IF m = n
                   THEN [b[n] EXCEPT !.artifact = Artifact("draft", 0, n),
                                     !.accepted = IF r.accept THEN TRUE ELSE @]
                   ELSE IF m = up /\ r.accept THEN [b[m] EXCEPT !.done = TRUE]
                   ELSE b[m]],
               labels, TRUE, {})

\* ReviewBot._final_summary: r.accept tells whether the final line of the
\* summary contains ACCEPT
FinalSummary(b, labels, n, r) ==
    Result([b EXCEPT ![n].artifact = Artifact("draft", 0, n),
                     ![n].accepted = IF r.accept THEN TRUE ELSE @],
           labels, TRUE, {})

\* llm_call_sequence[self.current_llm_call_index]()
RunPhase(b, labels, n, r) ==
    LET ph == PhaseOf(b, n)
    IN  IF ph \in FanOutPhases THEN FormatInstructions(b, labels, n, r)
        ELSE IF ph = "_create_round_robin" THEN RoundRobin(b, labels, n, r)
        ELSE IF ph = "_draft_document_code" THEN DraftDocument(b, labels, n, r)
        ELSE IF ph = "_draft_section_code" THEN DraftSection(b, labels, n, r)
        ELSE IF ph = "_draft_subsection_code" THEN DraftSubsection(b, labels, n, r)
        ELSE IF ph \in FinalPhases THEN FinalDecision(b, labels, n, r)
        ELSE IF ph = "_generate_environment_block"
             THEN GenerateEnvironmentBlock(b, labels, n)
        ELSE IF ph = "_review_evaluation" THEN ReviewEvaluation(b, labels, n)
        ELSE IF ph = "_final_summary" THEN FinalSummary(b, labels, n, r)
        ELSE Think(b, labels, n)

----------------------------------------------------------------------------
(* step() *)

\* the RuntimeError the guards at the head of step() raise, or "none"
Raised(b, n) ==
    IF b[n].done THEN "done"
    ELSE IF b[n].level # "Review" /\ b[n].iterations >= Cap(b[n].level)
    THEN "limit"
    ELSE "none"

\* a step that moves the index on and never wraps it
AdvanceNoWrap(bot) == [bot EXCEPT !.current_llm_call_index = @ + 1]

\* L1Bot / L2Bot / L4Bot.step: the index moves on and wraps
Advance(bot) ==
    LET next == bot.current_llm_call_index + 1
    IN  [bot EXCEPT !.current_llm_call_index =
                        IF next >= Len(PhaseSeq(bot.level)) THEN 0 ELSE next]

\* an L3Bot.step that does not look at restart
AdvanceNoRestart(bot) ==
    [bot EXCEPT !.current_llm_call_index = (@ + 1) % Len(PhaseSeq(bot.level))]

\* L3Bot.step: a restart goes back to the first phase
AdvanceL3(bot) ==
    IF bot.restart
    THEN [bot EXCEPT !.current_llm_call_index = 0, !.restart = FALSE]
    ELSE [bot EXCEPT !.current_llm_call_index =
                         (@ + 1) % Len(PhaseSeq(bot.level))]

\* a ReviewBot.step that counts the iteration and leaves the index
AdvanceReviewHold(bot) == [bot EXCEPT !.iterations = @ + 1]

\* ReviewBot.step: every phase counts as an iteration; the last one ends the
\* review
AdvanceReview(bot) ==
    LET next == bot.current_llm_call_index + 1
        last == next >= Len(PhaseSeq(bot.level))
    IN  [bot EXCEPT !.iterations = @ + 1,
                    !.current_llm_call_index = IF last THEN 0 ELSE next,
                    !.done = IF last THEN TRUE ELSE @]

AdvanceIndex(bot) ==
    IF bot.level = "L3" THEN AdvanceL3(bot)
    ELSE IF bot.level = "Review" THEN AdvanceReview(bot)
    ELSE Advance(bot)

\* what a step() call did: the table and registry it leaves, the phase
\* function it ran ("none": it ran none), the error it raised, and what the
\* phase reported
Outcome(ran, phase, raised) ==
    [bots |-> ran.bots, labels |-> ran.labels, llm |-> ran.llm,
     integrated |-> ran.integrated, phase |-> phase, raised |-> raised]

\* step() of bot n on response r past the guards: one phase, then the index
StepOk(b, labels, n, r) ==
    LET ran == RunPhase(b, labels, n, r)
    IN  Outcome([ran EXCEPT !.bots = [ran.bots EXCEPT ![n] = AdvanceIndex(@)]],
                PhaseOf(b, n), "none")

\* the record of a step() call
StepEvent(b, n, s) ==
    [op |-> "step", node |-> n, level |-> b[n].level, phase |-> s.phase,
     raised |-> s.raised, llm |-> s.llm, integrated |-> s.integrated]

NoEvent ==
    [op |-> "none", node |-> root, level |-> "L1", phase |-> "none",
     raised |-> "none", llm |-> FALSE, integrated |-> {}]

\* step() without its guards
StepUnguarded(b, labels, n, r) == StepOk(b, labels, n, r)

\* step() of bot n: a raise leaves everything as it was
Step(b, labels, n, r) ==
    IF Raised(b, n) # "none"
    THEN Outcome(Result(b, labels, FALSE, {}), "none", Raised(b, n))
    ELSE StepOk(b, labels, n, r)

----------------------------------------------------------------------------
(* What the generation service and the random draws may answer *)

\* the instruction lists a fan-out response may parse to
InstructionLists ==
    LET longest == IF Above1(Config) = 0 THEN MaxInstr ELSE MaxInstrRaised
    IN  UNION {[1..len -> 1..longest] : len \in 0..longest}

\* the tokens random.choices(characters, k=NUM_LABEL_CHAR) may draw
Tokens == [1..Config.NUM_LABEL_CHAR -> 1..AlphabetSize]

\* the tokens a run of get_label calls may return, one after the other, from
\* registry labels: count distinct tokens, none of them registered
FreshTokens(labels, count) ==
    {s \in [1..count -> Tokens \ labels] :
        \A i, j \in 1..count : i # j => s[i] # s[j]}

NoResponse ==
    [instrs |-> <<>>, results |-> <<>>, choice |-> <<>>, used |-> {},
     header |-> FALSE, complete |-> FALSE, accept |-> FALSE, labels |-> <<>>]

\* the draws random.choice may make in _compute_round_robin_winners of n
Choices(b, n) ==
    IF NumCandidates(b[n].level) > 1
    THEN {f \in [ChoiceIntents(b, n) -> 1..Len(b[n].children)] :
             \A k \in DOMAIN f :
                 f[k] <= Len(Group(b, b[n].level, b[n].children, k))}
    ELSE {<<>>}

\* the titles the blocks of n hold once the children's drafts are merged in
TitlesAfter(b, n, r) ==
    LET b1 == AfterTournament(b, n, r)
    IN  DOMAIN MergeBlocks(b1, b1[n].blocks, b1[n].children)

\* whether _draft_subsection_code of n restarts under the draws of r
Restarts(b, n, r) ==
    LET b1 == AfterTournament(b, n, r)
    IN  AllNone(MergeDrafts(b1, b1[n].blocks, b1[n].children))

\* the responses to the phase the next step() of bot n runs
Responses(b, labels, n) ==
    LET ph == PhaseOf(b, n)
    IN  IF ph \in FanOutPhases
        THEN {[NoResponse EXCEPT !.instrs = s] : s \in InstructionLists}
        ELSE IF ph = "_create_round_robin"
        THEN {[NoResponse EXCEPT !.results = f] :
                 f \in [1..Len(NewPairs(b, n)) -> MatchResults]}
        ELSE IF ph = "_draft_document_code"
        THEN {[NoResponse EXCEPT !.used = u] :
                 u \in SUBSET TitlesAfter(b, n, NoResponse)}
        ELSE IF ph = "_draft_section_code"
        THEN {[NoResponse EXCEPT !.used = u, !.header = h] :
                 u \in SUBSET TitlesAfter(b, n, NoResponse), h \in BOOLEAN}
        ELSE IF ph = "_draft_subsection_code"
        THEN UNION {
                 IF Restarts(b, n, [NoResponse EXCEPT !.choice = c])
                 THEN {[NoResponse EXCEPT !.choice = c]}
                 ELSE {[NoResponse EXCEPT !.choice = c, !.header = h, !.labels = l] :
                          h \in BOOLEAN,
                          l \in UNION {FreshTokens(labels, k) : k \in 0..MaxDraftLabels}}
                 : c \in Choices(b, n)}
        ELSE IF ph \in FinalPhases
        THEN {[NoResponse EXCEPT !.complete = c] : c \in BOOLEAN}
        ELSE IF ph = "_final_summary"
        THEN {[NoResponse EXCEPT !.accept = a] : a \in BOOLEAN}
        ELSE {NoResponse}

\* no replay: the service answers as it likes
NoScript ==
    [on |-> FALSE, instrs |-> <<>>, result |-> 1, complete |-> FALSE,
     accept |-> FALSE, header |-> FALSE]

\* the responses the next step() of bot n may receive: under a script, those
\* that are the answers the script gives
Answers(b, labels, n) ==
    IF script.on
    THEN {r \in Responses(b, labels, n) :
         LET ph == PhaseOf(b, n)
         IN  /\ ph \in FanOutPhases => r.instrs = script.instrs
             /\ \A i \in DOMAIN r.results : r.results[i] = script.result
             /\ \A k \in DOMAIN r.choice : r.choice[k] = 1
             /\ ph \in {"_draft_document_code", "_draft_section_code"}
                    => r.used = TitlesAfter(b, n, NoResponse)
             /\ (ph = "_draft_section_code"
                    \/ (ph = "_draft_subsection_code" /\ ~Restarts(b, n, r)))
                    => r.header = script.header
             /\ r.labels = <<>>
             /\ ph \in FinalPhases => r.complete = script.complete
             /\ ph = "_final_summary" => r.accept = script.accept}
    ELSE Responses(b, labels, n)

----------------------------------------------------------------------------
(* The driver: parallel_updates and sequential_updates (src/main.py) *)

\* L1Bot(original_document, doc_instruction, lbl_mgr)
RootBot == NewBot("L1", <<None, None, None>>, Artifact("given", 0, root))

\* the model follows a bot through at most MaxFanOuts fan-outs, and a tree
\* of at most MaxBots bots
WithinBounds(b, n, r) ==
    (PhaseOf(b, n) \in FanOutPhases \cup {"_generate_environment_block"}
        /\ Raised(b, n) = "none")
    => /\ b[n].fanouts < MaxFanOuts
       /\ Cardinality(DOMAIN RunPhase(b, {}, n, r).bots) <= MaxBots

Init ==
    /\ Config \in Configs
    /\ bots = [n \in {root} |-> RootBot]
    /\ existing_labels = {}
    /\ pc = "loop"
    /\ pending = {}
    /\ spun = FALSE
    /\ event = NoEvent
    /\ lock = 0
    /\ caller = <<>>
    /\ script = NoScript
    /\ twin = <<>>

\* while L1.iterations < Config.L1_REASONING_STEPS
LoopCondition == bots[root].iterations < Config.L1_REASONING_STEPS

\* the effect of one step() call made by the driver
DriverStep(b, n) ==
    /\ \E r \in Answers(b, existing_labels, n) :
           /\ WithinBounds(b, n, r)
           /\ \E s \in {Step(b, existing_labels, n, r)} :
                  /\ bots' = s.bots
                  /\ existing_labels' = s.labels
                  /\ event' = StepEvent(b, n, s)

\* a round that makes a task for the first leaf only
TasksOfFirst(leaves) == IF leaves = <<>> THEN {} ELSE {leaves[1]}

\* tasks = [asyncio.create_task(bot.step()) for bot in leaves]
Tasks(leaves) == Range(leaves)

\* parallel_updates, lines 86-91: the leaves, and one task per leaf
RoundStart ==
    /\ pc = "loop"
    /\ Config.PARALLEL
    /\ LoopCondition
    /\ \E g \in {get_leaves(bots, root)} :
           /\ bots' = g.bots
           /\ pending' = Tasks(g.leaves)
           /\ pc' = IF g.leaves = <<>> THEN "loop" ELSE "gather"
           /\ spun' = (spun \/ g.leaves = <<>>)
    /\ UNCHANGED <<Config, existing_labels, event, lock, caller, script, twin>>

\* parallel_updates, line 92: one of the round's tasks runs its step(); the
\* round ends with the last task, or with the first that raises
TaskStep(n) ==
    /\ pc = "gather"
    /\ n \in pending
    /\ DriverStep(bots, n)
    /\ pending' = pending \ {n}
    /\ pc' = IF event'.raised # "none" THEN "crashed"
             ELSE IF pending' = {} THEN "loop" ELSE "gather"
    /\ UNCHANGED <<Config, spun, lock, caller, script, twin>>

\* the last leaf of the list
LastLeaf(leaves) == leaves[Len(leaves)]

\* next_leaf = leaves[0]
NextLeaf(leaves) == leaves[1]

\* sequential_updates, lines 115-127: the leaves, and step() of the first
SeqStep ==
    /\ pc = "loop"
    /\ ~Config.PARALLEL
    /\ LoopCondition
    /\ \E g \in {get_leaves(bots, root)} :
           /\ g.leaves # <<>>
           /\ DriverStep(g.bots, NextLeaf(g.leaves))
           /\ pc' = IF event'.raised # "none" THEN "crashed" ELSE "loop"
    /\ UNCHANGED <<Config, pending, spun, lock, caller, script, twin>>

\* sequential_updates, lines 128-130: no leaf, sleep and retry
SeqIdle ==
    /\ pc = "loop"
    /\ ~Config.PARALLEL
    /\ LoopCondition
    /\ \E g \in {get_leaves(bots, root)} :
           /\ g.leaves = <<>>
           /\ bots' = g.bots
    /\ spun' = TRUE
    /\ UNCHANGED <<Config, existing_labels, pc, pending, event, lock, caller, script, twin>>

\* the loop condition fails: the driver returns
LoopExit ==
    /\ pc = "loop"
    /\ ~LoopCondition
    /\ pc' = "exited"
    /\ UNCHANGED <<Config, bots, existing_labels, pending, spun, event, lock, caller,
                   script, twin>>

Next ==
    \/ RoundStart
    \/ \E n \in pending : TaskStep(n)
    \/ SeqStep
    \/ SeqIdle
    \/ LoopExit

Spec == Init /\ [][Next]_vars

----------------------------------------------------------------------------
(* step() called from outside the driver *)

\* step() of bot n called directly while one of its guards holds: the
\* RuntimeError reaches the caller and ends the program
DirectStep(n) ==
    /\ pc \in {"loop", "exited"}
    /\ Raised(bots, n) # "none"
    /\ DriverStep(bots, n)
    /\ pc' = "crashed"
    /\ UNCHANGED <<Config, pending, spun, lock, caller, script, twin>>

ApiNext ==
    \/ Next
    \/ \E n \in DOMAIN bots : DirectStep(n)

ApiInit ==
    /\ Init
    /\ Above1(Config) <= MaxAbove1Api

ApiSpec == ApiInit /\ [][ApiNext]_vars

----------------------------------------------------------------------------
(* get_leaves on any tree: one scheduling pass (the first lines of a round *)
(* of parallel_updates) over a tree the constructors can have made, with   *)
(* any done flags                                                          *)

\* the children a fan-out of bot n makes: candidates for the instructions of
\* instrs, or the reviewers of an L4 bot
Sprout(b, n, instrs) ==
    IF b[n].level = "L4"
    THEN MakeChildren(b, n, <<None>>, Config.NUM_REVIEWERS)
    ELSE MakeChildren(b, n, instrs, NumCandidates(b[n].level))

\* the bots of b that can still make their first children
Childless(b) == {n \in DOMAIN b : b[n].children = <<>> /\ b[n].level # "Review"}

\* the trees of at most MaxBots bots that one more fan-out makes of tree b
\* (the instruction list of a fan-out has the titles in the order of their
\* numbers)
Sprouts(b) ==
    {t \in UNION {{Sprout(b, n, instrs) : instrs \in {s \in InstructionLists : s # <<>> /\ \A i \in DOMAIN s : s[i] = i}} :
                     n \in Childless(b)} :
        Cardinality(DOMAIN t) <= MaxBots}

\* the trees made by at most k fan-outs from the root bot
RECURSIVE Grown(_)
Grown(k) ==
    IF k = 0 THEN {[n \in {root} |-> RootBot]}
    ELSE LET prev == Grown(k - 1)
         IN  prev \cup UNION {Sprouts(b) : b \in prev}

\* a bot that ended by its own last phase, every cap being 1
Finished(bot) ==
    [bot EXCEPT !.done = TRUE,
                !.iterations = IF bot.level = "Review"
                               THEN Len(PhaseSeq("Review")) ELSE 1,
                !.final_decision_response =
                    IF bot.level \in {"L1", "L2", "L3"} THEN "CONTINUE" ELSE @]

\* get_leaves does not read the caps
TreeConfigs ==
    {c \in Configs :
        /\ c.PARALLEL
        /\ c.L1_REASONING_STEPS = 1 /\ c.L2_REASONING_STEPS = 1
        /\ c.L3_REASONING_STEPS = 1 /\ c.L4_REASONING_STEPS = 1}

\* the trees the fan-outs make, where any bots but the root have ended
TreeInit ==
    /\ Config \in TreeConfigs
    /\ bots \in UNION {{Table([n \in DOMAIN b |->
                                    IF n \in D THEN Finished(b[n]) ELSE b[n]]) :
                              D \in SUBSET (DOMAIN b \ {root})} :
                          b \in Grown(MaxTreeFanOuts)}
    /\ existing_labels = {}
    /\ pc = "loop"
    /\ pending = {}
    /\ spun = FALSE
    /\ event = NoEvent
    /\ lock = 0
    /\ caller = <<>>
    /\ script = NoScript
    /\ twin = <<>>

TreeSpec == TreeInit /\ [][RoundStart]_vars

----------------------------------------------------------------------------
(* The two policies on the same answers: a run under one policy, then the  *)
(* run under the other policy replayed on the same script                  *)

\* what is compared of a terminal tree: the surviving bots, their done
\* flags, their outcomes, and how far each went
Terminal(b) ==
    Table([n \in DOMAIN b |->
              [level |-> b[n].level, done |-> b[n].done,
               accepted |-> b[n].accepted, incomplete |-> b[n].incomplete,
               final_decision_response |-> b[n].final_decision_response,
               iterations |-> b[n].iterations,
               current_llm_call_index |-> b[n].current_llm_call_index]])

\* the script is a deterministic service: the same instruction list to every
\* fan-out, the same judgment of every match, the same decision on every
\* final line; every block is used, no label is unknown, random.choice
\* draws the first bot
PairInit ==
    /\ Config \in Configs
    /\ bots = [n \in {root} |-> RootBot]
    /\ existing_labels = {}
    /\ pc = "loop"
    /\ pending = {}
    /\ spun = FALSE
    /\ event = NoEvent
    /\ lock = 0
    /\ caller = <<>>
    /\ script \in [on : {TRUE}, instrs : InstructionLists \ {<<>>}, result : MatchResults,
                   complete : BOOLEAN, accept : BOOLEAN, header : BOOLEAN]
    /\ twin = <<>>

\* the first run has returned: keep its terminal tree and start again from
\* the same document under the other policy
Replay ==
    /\ pc = "exited"
    /\ twin = <<>>
    /\ twin' = Terminal(bots)
    /\ Config' = [Config EXCEPT !.PARALLEL = ~@]
    /\ bots' = [n \in {root} |-> RootBot]
    /\ existing_labels' = {}
    /\ pc' = "loop"
    /\ spun' = FALSE
    /\ event' = NoEvent
    /\ UNCHANGED <<pending, lock, caller, script>>

PairNext ==
    \/ Next
    \/ Replay

PairSpec == PairInit /\ [][PairNext]_vars

----------------------------------------------------------------------------
(* The program from start-up to the save (src/main.py, __main__), with      *)
(* llm_call raising out of a step().  pc is "saved" once the document is   *)
(* written to Config.DOC_SAVE and "aborted" when the program has ended on   *)
(* the exception.                                                           *)

\* step() of bot n whose phase function awaits llm_call, which raises: what
\* the phase did before the call stays (the winners of the tournament and
\* the children's drafts put into the blocks); the index is not moved
FailedStep(b, labels, n, r) ==
    CHOOSE v \in {
        LET ph == PhaseOf(b, n)
            bf == IF ph \in {"_draft_document_code", "_draft_section_code"}
                  THEN [b1 EXCEPT ![n].blocks =
                           MergeBlocks(b1, b1[n].blocks, b1[n].children)]
                  ELSE IF ph = "_draft_subsection_code"
                  THEN [b1 EXCEPT ![n].blocks =
                           MergeDrafts(b1, b1[n].blocks, b1[n].children)]
                  ELSE b
        IN  Outcome(Result(bf, labels, TRUE, {}), ph, "llm") :
        b1 \in {IF PhaseOf(b, n) \in {"_draft_document_code", "_draft_section_code",
                                      "_draft_subsection_code"}
                THEN AfterTournament(b, n, r) ELSE b}} : TRUE

\* a step() call made by the driver in which llm_call raises
DriverFail(b, n) ==
    /\ \E r \in Answers(b, existing_labels, n) :
           /\ Step(b, existing_labels, n, r).llm
           /\ \E s \in {FailedStep(b, existing_labels, n, r)} :
                  /\ bots' = s.bots
                  /\ existing_labels' = s.labels
                  /\ event' = StepEvent(b, n, s)

\* parallel_updates, line 92: a task raises out of llm_call; gather raises,
\* and asyncio.run cancels the tasks that are left
TaskFail(n) ==
    /\ pc = "gather"
    /\ n \in pending
    /\ DriverFail(bots, n)
    /\ pending' = {}
    /\ pc' = "crashed"
    /\ UNCHANGED <<Config, spun, lock, caller, script, twin>>

\* sequential_updates, line 127: the step() awaited raises out of llm_call
SeqFail ==
    /\ pc = "loop"
    /\ ~Config.PARALLEL
    /\ LoopCondition
    /\ \E g \in {get_leaves(bots, root)} :
           /\ g.leaves # <<>>
           /\ DriverFail(g.bots, NextLeaf(g.leaves))
    /\ pc' = "crashed"
    /\ UNCHANGED <<Config, pending, spun, lock, caller, script, twin>>

\* lines 167-181 without the visualizer: asyncio.run returns, and the
\* document is written
RunReturned ==
    /\ ~Config.VISUALIZER
    /\ pc = "exited"
    /\ pc' = "saved"
    /\ UNCHANGED <<Config, bots, existing_labels, pending, spun, event, lock,
                   caller, script, twin>>

\* lines 167-173 without the visualizer: asyncio.run raises the exception
\* of the step(), which ends the program before line 176
RunRaised ==
    /\ ~Config.VISUALIZER
    /\ pc = "crashed"
    /\ pc' = "aborted"
    /\ UNCHANGED <<Config, bots, existing_labels, pending, spun, event, lock,
                   caller, script, twin>>

\* lines 150-166 and 176-181 with the visualizer: the updates run in a
\* thread of their own, which ends when asyncio.run returns or raises; the
\* main thread leaves mainloop when the window is closed, joins the thread
\* and writes the document
WindowClosed ==
    /\ Config.VISUALIZER
    /\ pc \in {"exited", "crashed"}
    /\ pc' = "saved"
    /\ UNCHANGED <<Config, bots, existing_labels, pending, spun, event, lock,
                   caller, script, twin>>

\* the configurations with one cap or candidate number above 1, with
\* Config.VISUALIZER
MainInit ==
    /\ Config \in {c @@ [VISUALIZER |-> v] : c \in {a \in AllConfigs : Above1(a) = 1},
                                             v \in BOOLEAN}
    /\ bots = [n \in {root} |-> RootBot]
    /\ existing_labels = {}
    /\ pc = "loop"
    /\ pending = {}
    /\ spun = FALSE
    /\ event = NoEvent
    /\ lock = 0
    /\ caller = <<>>
    /\ script = NoScript
    /\ twin = <<>>

MainNext ==
    \/ Next
    \/ \E n \in pending : TaskFail(n)
    \/ SeqFail
    \/ RunReturned
    \/ RunRaised
    \/ WindowClosed

MainSpec == MainInit /\ [][MainNext]_vars

----------------------------------------------------------------------------
(* The driver followed without a limit on the fan-outs of a bot: the       *)
(* children a fan-out drops are garbage, and the name of a dropped         *)
(* generation is given to the next generation but one.                     *)

\* the table in which the next children of bot n get the name its present
\* children do not have
Renamed(b, n) ==
    [b EXCEPT ![n].fanouts =
                  IF b[n].children # <<>> /\ b[n].children[1][Len(n) + 1] = 0
                  THEN 1 ELSE 0]

\* the effect of one step() call made by the driver
FairDriverStep(b, n) ==
    \E b0 \in {Renamed(b, n)} :
        \E r \in Answers(b0, existing_labels, n) :
            \E s \in {Step(b0, existing_labels, n, r)} :
                /\ bots' = s.bots
                /\ existing_labels' = s.labels
                /\ event' = StepEvent(b0, n, s)

\* parallel_updates, line 92
FairTaskStep(n) ==
    /\ pc = "gather"
    /\ n \in pending
    /\ FairDriverStep(bots, n)
    /\ pending' = pending \ {n}
    /\ pc' = IF event'.raised # "none" THEN "crashed"
             ELSE IF pending' = {} THEN "loop" ELSE "gather"
    /\ UNCHANGED <<Config, spun, lock, caller, script, twin>>

\* sequential_updates, lines 115-127
FairSeqStep ==
    /\ pc = "loop"
    /\ ~Config.PARALLEL
    /\ LoopCondition
    /\ \E g \in {get_leaves(bots, root)} :
           /\ g.leaves # <<>>
           /\ FairDriverStep(g.bots, NextLeaf(g.leaves))
           /\ pc' = IF event'.raised # "none" THEN "crashed" ELSE "loop"
    /\ UNCHANGED <<Config, pending, spun, lock, caller, script, twin>>

\* one cap is 2, every other cap and every candidate number is 1
FairInit ==
    /\ Config \in {c \in AllConfigs :
                      /\ Above1(c) = 1
                      /\ c.NUM_L2_BOTS = 1 /\ c.NUM_L3_BOTS = 1
                      /\ c.NUM_L4_BOTS = 1 /\ c.NUM_REVIEWERS = 1}
    /\ bots = [n \in {root} |-> RootBot]
    /\ existing_labels = {}
    /\ pc = "loop"
    /\ pending = {}
    /\ spun = FALSE
    /\ event = NoEvent
    /\ lock = 0
    /\ caller = <<>>
    /\ script = NoScript
    /\ twin = <<>>

FairNext ==
    \/ RoundStart
    \/ \E n \in pending : FairTaskStep(n)
    \/ FairSeqStep
    \/ SeqIdle
    \/ LoopExit

\* every llm_call returns and the event loop runs the driver and the tasks
\* of a round as long as there is something to run
FairSpec == FairInit /\ [][FairNext]_vars /\ WF_vars(FairNext)

----------------------------------------------------------------------------
(* LabelManager (src/latex_labels.py): coroutines calling get_label and    *)
(* check_label on one manager.  A coroutine can be suspended where it      *)
(* awaits: entering and leaving `async with self.lock`.                    *)

Callers == 1..MaxCallers

\* a coroutine between calls; got holds what its get_label calls returned
\* (the token, and whether the registry knew it when the lock was taken),
\* answers what its check_label calls returned
IdleCaller ==
    [op |-> "none", at |-> "idle", label |-> <<>>, known |-> FALSE,
     calls |-> 0, got |-> <<>>, answers |-> <<>>]

\* a check that lets every token through
AnyToken(labels, token) == TRUE

\* line 31: new_label not in self.existing_labels
Unregistered(labels, token) == token \notin labels

\* a registry that does not take the token in
Forgotten(labels, token) == labels

\* line 32: self.existing_labels.add(new_label)
Registered(labels, token) == labels \cup {token}

\* lines 28-29: a call of get_label (or its next attempt) draws a token, and
\* goes on to take the lock
GetLabelDraw(i) ==
    /\ \/ caller[i].at = "idle" /\ caller[i].calls < MaxCalls
       \/ caller[i].at = "retry"
    /\ \E t \in Tokens :
           caller' = [caller EXCEPT ![i].op = "get_label", ![i].at = "acquire",
                                    ![i].label = t,
                                    ![i].calls = IF caller[i].at = "idle"
                                                 THEN @ + 1 ELSE @]
    /\ UNCHANGED <<Config, bots, existing_labels, pc, pending, spun, event, lock,
                   script, twin>>

\* lines 30-32: the lock is free and taken; the token is checked and added
GetLabelEnter(i) ==
    /\ caller[i].op = "get_label" /\ caller[i].at = "acquire"
    /\ lock = 0
    /\ lock' = i
    /\ LET t == caller[i].label
       IN  IF Unregistered(existing_labels, t)
           THEN /\ existing_labels' = Registered(existing_labels, t)
                /\ caller' = [caller EXCEPT ![i].at = "return",
                                            ![i].known = (t \in existing_labels)]
           ELSE /\ existing_labels' = existing_labels
                /\ caller' = [caller EXCEPT ![i].at = "loop",
                                            ![i].known = (t \in existing_labels)]
    /\ UNCHANGED <<Config, bots, pc, pending, spun, event, script, twin>>

\* a lock that stays with the caller whose token was registered already
HeldOnCollision(i) == IF caller[i].at = "loop" THEN i ELSE 0

\* the end of `async with self.lock`: the lock is free again
Release(i) == 0

\* the lock is released; line 33 returns the token, or the loop goes round
GetLabelLeave(i) ==
    /\ caller[i].op = "get_label" /\ caller[i].at \in {"return", "loop"}
    /\ lock' = Release(i)
    /\ caller' = IF caller[i].at = "return"
                 THEN [caller EXCEPT ![i].op = "none", ![i].at = "idle",
                                     ![i].got = Append(@, [token |-> caller[i].label,
                                                           known |-> caller[i].known])]
                 ELSE [caller EXCEPT ![i].at = "retry"]
    /\ UNCHANGED <<Config, bots, existing_labels, pc, pending, spun, event,
                   script, twin>>

\* a call of check_label(label), for a token or a label of the registry
CheckLabelCall(i) ==
    /\ caller[i].at = "idle" /\ caller[i].calls < MaxCalls
    /\ \E t \in Tokens \cup existing_labels :
           caller' = [caller EXCEPT ![i].op = "check_label", ![i].at = "acquire",
                                    ![i].label = t, ![i].calls = @ + 1]
    /\ UNCHANGED <<Config, bots, existing_labels, pc, pending, spun, event, lock,
                   script, twin>>

\* lines 45-46: the lock is free and taken; the answer is read
CheckLabelEnter(i) ==
    /\ caller[i].op = "check_label" /\ caller[i].at = "acquire"
    /\ lock = 0
    /\ lock' = i
    /\ caller' = [caller EXCEPT ![i].at = "return",
                                ![i].known = (caller[i].label \in existing_labels)]
    /\ UNCHANGED <<Config, bots, existing_labels, pc, pending, spun, event,
                   script, twin>>

\* the lock is released and the answer returned
CheckLabelLeave(i) ==
    /\ caller[i].op = "check_label" /\ caller[i].at = "return"
    /\ lock' = Release(i)
    /\ caller' = [caller EXCEPT ![i].op = "none", ![i].at = "idle",
                                ![i].answers = Append(@, [label |-> caller[i].label,
                                                          known |-> caller[i].known])]
    /\ UNCHANGED <<Config, bots, existing_labels, pc, pending, spun, event,
                   script, twin>>

\* the configurations of the runs of the LabelManager alone
LabelConfigs ==
    {[c EXCEPT !.NUM_LABEL_CHAR = k] : c \in TreeConfigs, k \in 1..MaxLabelChar}

\* LabelManager(document): the labels of the document, an unlocked lock
LabelInit ==
    /\ Config \in {c \in LabelConfigs : Above1(c) = 0}
    /\ bots = [n \in {root} |-> RootBot]
    /\ existing_labels \in SUBSET Tokens
    /\ pc = "loop"
    /\ pending = {}
    /\ spun = FALSE
    /\ event = NoEvent
    /\ lock = 0
    /\ caller = [i \in Callers |-> IdleCaller]
    /\ script = NoScript
    /\ twin = <<>>

LabelNext ==
    \E i \in Callers :
        \/ GetLabelDraw(i)
        \/ GetLabelEnter(i)
        \/ GetLabelLeave(i)
        \/ CheckLabelCall(i)
        \/ CheckLabelEnter(i)
        \/ CheckLabelLeave(i)

LabelSpec == LabelInit /\ [][LabelNext]_vars

\* the loop of get_label goes round and random.choices draws token t
RedrawOf(i, t) ==
    /\ caller[i].at = "retry"
    /\ GetLabelDraw(i)
    /\ caller'[i].label = t

\* LabelManager(document) with tokens of one character
FairLabelInit == LabelInit /\ Config.NUM_LABEL_CHAR = 1

\* the runs of the LabelManager alone, with tokens of one character, in
\* which the event loop runs every coroutine that can go on, asyncio.Lock
\* wakes its waiters in turn, and a loop that goes round for ever draws
\* every token again and again
FairLabelSpec ==
    /\ FairLabelInit
    /\ [][LabelNext]_vars
    /\ \A i \in Callers :
           /\ WF_vars(GetLabelLeave(i))
           /\ WF_vars(CheckLabelLeave(i))
           /\ SF_vars(GetLabelEnter(i))
           /\ SF_vars(CheckLabelEnter(i))
           /\ \A t \in [1..1 -> 1..AlphabetSize] : SF_vars(RedrawOf(i, t))

----------------------------------------------------------------------------
(* The LabelManager built from a document.  A document is a list of        *)
(* symbols: the characters of the alphabet, the text \label{ as one symbol *)
(* and the closing brace as one symbol.                                    *)

\* the text \label{
Opener == 0

\* the character }
Closer == AlphabetSize + 1

\* the place of the first } of doc at or after place i, Len(doc) + 1 if none
RECURSIVE NextCloser(_, _)
NextCloser(doc, i) ==
    IF i > Len(doc) \/ doc[i] = Closer THEN i ELSE NextCloser(doc, i + 1)

\* re.findall(r'\\label\{([^}]+)\}', document) from place i on: a match is
\* the opener, one or more symbols other than }, and the }; the scan goes
\* on behind a match, and one place further where there is none
RECURSIVE FindAll(_, _)
FindAll(doc, i) ==
    IF i > Len(doc) THEN {}
    ELSE LET j == NextCloser(doc, i + 1)
         IN  IF doc[i] = Opener /\ j <= Len(doc) /\ j > i + 1
             THEN {SubSeq(doc, i + 1, j - 1)} \cup FindAll(doc, j + 1)
             ELSE FindAll(doc, i + 1)

\* lbl_mgr = LabelManager(original_document): the labels of the document,
\* an unlocked lock; L1Bot(original_document, ...): the root holds the text
\* of the document
DocInit ==
    /\ Config \in {c \in LabelConfigs : Above1(c) = 0 /\ c.NUM_LABEL_CHAR = 1}
    /\ \E doc \in UNION {[1..len -> Opener..Closer] : len \in 0..MaxDocLen} :
           /\ bots = [n \in {root} |-> [RootBot EXCEPT !.artifact = doc]]
           /\ existing_labels = FindAll(doc, 1)
    /\ pc = "loop"
    /\ pending = {}
    /\ spun = FALSE
    /\ event = NoEvent
    /\ lock = 0
    /\ caller = [i \in Callers |-> IdleCaller]
    /\ script = NoScript
    /\ twin = <<>>

DocSpec == DocInit /\ [][LabelNext]_vars

----------------------------------------------------------------------------
(* The label loop of L3Bot._draft_subsection_code (src/bots/L3_bot.py,     *)
(* lines 600-610) in L3 bots that have their drafts and share one          *)
(* LabelManager.  The drafts are lists of symbols as above and use the     *)
(* command \label only.                                                    *)

\* re.sub of line 606 from place i on: every \label{label} becomes
\* \label{token}; the scan goes on behind a match
RECURSIVE SubFrom(_, _, _, _)
SubFrom(doc, label, token, i) ==
    IF i > Len(doc) THEN <<>>
    ELSE IF /\ doc[i] = Opener
            /\ i + Len(label) + 1 <= Len(doc)
            /\ SubSeq(doc, i + 1, i + Len(label)) = label
            /\ doc[i + Len(label) + 1] = Closer
    THEN <<Opener>> \o token \o <<Closer>>
             \o SubFrom(doc, label, token, i + Len(label) + 2)
    ELSE <<doc[i]>> \o SubFrom(doc, label, token, i + 1)

\* an L3 bot behind line 603: subsection_draft, unique_labels still to
\* visit, the label of the present pass of the loop, and the (label,
\* new_label) pairs of the passes made
Drafting(doc) ==
    [op |-> "none", at |-> "idle", label |-> <<>>, known |-> FALSE,
     calls |-> 0, got |-> <<>>, answers |-> <<>>,
     draft |-> doc, todo |-> FindAll(doc, 1), cur |-> <<>>, stage |-> "for",
     renamed |-> {}]

\* lines 603-604: the next label of the set, in any order, and the call of
\* check_label
LabelLoopCheck(i) ==
    /\ caller[i].at = "idle" /\ caller[i].stage = "for"
    /\ \E l \in caller[i].todo :
           caller' = [caller EXCEPT ![i].op = "check_label", ![i].at = "acquire",
                                    ![i].label = l, ![i].cur = l,
                                    ![i].todo = @ \ {l}, ![i].stage = "check"]
    /\ UNCHANGED <<Config, bots, existing_labels, pc, pending, spun, event, lock,
                   script, twin>>

\* line 604: check_label answered True, the label stays
LabelLoopKeep(i) ==
    /\ caller[i].at = "idle" /\ caller[i].stage = "check"
    /\ caller[i].answers[Len(caller[i].answers)].known
    /\ caller' = [caller EXCEPT ![i].stage = "for"]
    /\ UNCHANGED <<Config, bots, existing_labels, pc, pending, spun, event, lock,
                   script, twin>>

\* lines 604-605: check_label answered False, the call of get_label
LabelLoopGet(i) ==
    /\ caller[i].at = "idle" /\ caller[i].stage = "check"
    /\ ~caller[i].answers[Len(caller[i].answers)].known
    /\ \E t \in Tokens :
           caller' = [caller EXCEPT ![i].op = "get_label", ![i].at = "acquire",
                                    ![i].label = t, ![i].stage = "get"]
    /\ UNCHANGED <<Config, bots, existing_labels, pc, pending, spun, event, lock,
                   script, twin>>

\* lines 606-610: the label is replaced in the draft
LabelLoopSub(i) ==
    /\ caller[i].at = "idle" /\ caller[i].stage = "get"
    /\ \E t \in {caller[i].got[Len(caller[i].got)].token} :
           caller' = [caller EXCEPT
                         ![i].draft = SubFrom(@, caller[i].cur, t, 1),
                         ![i].renamed = @ \cup {<<caller[i].cur, t>>},
                         ![i].stage = "for"]
    /\ UNCHANGED <<Config, bots, existing_labels, pc, pending, spun, event, lock,
                   script, twin>>

\* the drafts of the bots: MaxDraftLen symbols in all, of the opener, the
\* closer and one character; the registry holds any tokens
LabelLoopInit ==
    /\ Config \in {c \in LabelConfigs : Above1(c) = 0 /\ c.NUM_LABEL_CHAR = 1}
    /\ bots = [n \in {root} |-> RootBot]
    /\ existing_labels \in SUBSET Tokens
    /\ pc = "loop"
    /\ pending = {}
    /\ spun = FALSE
    /\ event = NoEvent
    /\ lock = 0
    /\ \E n \in 0..MaxDraftLen :
           \E all \in [1..n -> {Opener, 1, Closer}], cut \in [0..MaxCallers -> 0..n] :
               /\ cut[0] = 0 /\ cut[MaxCallers] = n
               /\ \A i \in Callers : cut[i - 1] <= cut[i]
               /\ caller = [i \in Callers |->
                                Drafting(SubSeq(all, cut[i - 1] + 1, cut[i]))]
    /\ script = NoScript
    /\ twin = <<>>

LabelLoopNext ==
    \E i \in Callers :
        \/ LabelLoopCheck(i)
        \/ CheckLabelEnter(i)
        \/ CheckLabelLeave(i)
        \/ LabelLoopKeep(i)
        \/ LabelLoopGet(i)
        \/ GetLabelEnter(i)
        \/ GetLabelLeave(i)
        \/ caller[i].at = "retry" /\ GetLabelDraw(i)
        \/ LabelLoopSub(i)

LabelLoopSpec == LabelLoopInit /\ [][LabelLoopNext]_vars

----------------------------------------------------------------------------
(* The tournament alone: _create_round_robin and then                      *)
(* _compute_round_robin_winners of one bot, over candidates that have all  *)
(* ended (their own subtrees are left out), with any results of the        *)
(* matches and any list of matches left by an earlier pass                 *)

\* the instruction lists of the fan-out before a tournament of k candidates
\* per instruction
EloInstructionLists(k) ==
    {s \in UNION {[1..len -> 1..MaxInstr] : len \in 1..MaxInstr} :
        Len(s) * k <= MaxCandidates}

\* the bot that holds the tournament, before its fan-out: in its first pass,
\* or in a later one when a list is left from an earlier pass
Host(level, stale) ==
    [NewBot(level,
            IF level = "L1" THEN <<None, None, None>>
            ELSE IF level = "L2" THEN <<1, None, None>>
            ELSE <<1, 1, None>>,
            NoArtifact)
        EXCEPT !.round_robin = stale,
               !.fanouts = IF stale = <<>> THEN 0 ELSE 1,
               !.iterations = IF stale = <<>> \/ level = "L3" THEN 0 ELSE 1]

\* a candidate that has ended: an L2 or L3 bot by COMPLETE in its first pass;
\* an L4 bot accepted in its first pass (ok), or else out of iterations
Ended(bot, ok) ==
    IF bot.level = "L4"
    THEN [bot EXCEPT !.done = TRUE, !.incomplete = ~ok,
                     !.iterations = IF ok THEN 1 ELSE Cap("L4")]
    ELSE [bot EXCEPT !.done = TRUE, !.iterations = 1,
                     !.final_decision_response = "COMPLETE"]

\* the host after its fan-out for instrs, at its round-robin phase, and its
\* candidates ended, those of ok accepted
Tournament(level, stale, instrs, ok) ==
    LET made == MakeChildren([n \in {root} |-> Host(level, stale)], root, instrs,
                             NumCandidates(level))
        at   == CHOOSE i \in DOMAIN PhaseSeq(level) :
                    PhaseSeq(level)[i] = "_create_round_robin"
    IN  Table([m \in DOMAIN made |->
                  IF m = root
                  THEN [made[m] EXCEPT !.current_llm_call_index = at - 1]
                  ELSE Ended(made[m], m \in ok)])

\* two passes per bot and the same number of candidates per instruction at
\* every level; the tournaments of the configuration, the round_robin list
\* an earlier pass may have left being empty or a match of two candidates
\* of that pass
EloInit ==
    /\ Config \in {[c EXCEPT !.NUM_L2_BOTS = k, !.NUM_L3_BOTS = k, !.NUM_L4_BOTS = k] :
                      c \in {a \in AllConfigs :
                                /\ a.PARALLEL /\ a.NUM_REVIEWERS = 1
                                /\ a.L1_REASONING_STEPS = 2 /\ a.L2_REASONING_STEPS = 2
                                /\ a.L3_REASONING_STEPS = 2 /\ a.L4_REASONING_STEPS = 2},
                      k \in 2..MaxCandidates}
    /\ bots \in UNION {UNION {UNION {
                    {Tournament(level, stale, instrs, ok) :
                        ok \in IF level = "L3"
                               THEN SUBSET {root \o <<(IF stale = <<>> THEN 0 ELSE 1), p>> :
                                               p \in 1..MaxCandidates}
                               ELSE {{}}} :
                    instrs \in EloInstructionLists(NumCandidates(level))} :
                    stale \in {<<>>} \cup {<<NewMatch(<<root \o <<0, 1>>, root \o <<0, 2>>>>, r)>> :
                                        r \in MatchResults}} :
                    level \in {"L1", "L2", "L3"}}
    /\ existing_labels = {}
    /\ pc = "made"
    /\ pending = {}
    /\ spun = FALSE
    /\ event = NoEvent
    /\ lock = 0
    /\ caller = <<>>
    /\ script = NoScript
    /\ twin = <<>>

\* _create_round_robin of the host, under any judgments of the new matches
EloCreate ==
    /\ pc = "made"
    /\ \E results \in [1..Len(NewPairs(bots, root)) -> MatchResults] :
           bots' = CreateRoundRobin(bots, root, results)
    /\ pc' = "paired"
    /\ UNCHANGED <<Config, existing_labels, pending, spun, event, lock, caller,
                   script, twin>>

\* _compute_round_robin_winners of the host, under any random.choice
EloWinners ==
    /\ pc = "paired"
    /\ \E choice \in Choices(bots, root) :
           bots' = ComputeRoundRobinWinners(bots, root, choice)
    /\ pc' = "chosen"
    /\ UNCHANGED <<Config, existing_labels, pending, spun, event, lock, caller,
                   script, twin>>

EloNext == EloCreate \/ EloWinners

EloSpec == EloInit /\ [][EloNext]_vars

----------------------------------------------------------------------------
(* llm_call alone: the attempts of a call against a service that answers,  *)
(* is unavailable, or fails otherwise                                      *)

GOOGLE_MODELS == {"gemini-2.0-flash", "gemini-2.0-flash-thinking-exp"}

\* what an attempt may raise: a ServerError whose text holds "503" and
\* "UNAVAILABLE" or not, or an exception of another class
NoError == [class |-> "none", has503 |-> FALSE, unavailable |-> FALSE]

ValueError == [class |-> "ValueError", has503 |-> FALSE, unavailable |-> FALSE]

ServiceErrors ==
    [class : {"ServerError"}, has503 : BOOLEAN, unavailable : BOOLEAN]
        \cup {[class |-> "ClientError", has503 |-> TRUE, unavailable |-> TRUE]}

\* a clause that retries on every ServerError
AnyServerError(e) == e.class = "ServerError"

\* except ServerError as e: if "503" in str(e) and "UNAVAILABLE" in str(e)
Transient(e) == e.class = "ServerError" /\ e.has503 /\ e.unavailable

\* a sleep that grows by BACKOFF_FACTOR with each attempt
LinearSleep(attempt) == Config.BACKOFF_FACTOR * (attempt + 1)

\* sleep_time = Config.BACKOFF_FACTOR * (2 ** attempt)
SleepTime(attempt) == Config.BACKOFF_FACTOR * (2 ^ attempt)

LlmCalls == 1..MaxLlmCalls

\* a call entering the loop: attempt is the loop variable, failures the
\* errors caught or raised so far, waits the sleeps made so far
NewCall ==
    [op |-> "llm_call", at |-> "attempt", attempt |-> 0, failures |-> <<>>,
     waits |-> <<>>, raised |-> NoError]

\* the current attempt raises e: the except clause when e is a ServerError,
\* and an exception of another class leaves the call as it is raised
Caught(f, e) ==
    IF Transient(e) /\ f.attempt < Config.MAX_RETRIES - 1
    THEN [f EXCEPT !.at = "sleep",
                   !.failures = Append(@, e),
                   !.waits = Append(@, SleepTime(f.attempt))]
    ELSE [f EXCEPT !.at = "raised", !.failures = Append(@, e), !.raised = e]

\* an attempt under a model outside GOOGLE_MODELS: raise ValueError
LlmUnsupported(i) ==
    /\ caller[i].at = "attempt"
    /\ Config.DEFAULT_MODEL_NAME \notin GOOGLE_MODELS
    /\ caller' = [caller EXCEPT ![i] = Caught(@, ValueError)]

\* an attempt the service answers: return output
LlmReturn(i) ==
    /\ caller[i].at = "attempt"
    /\ Config.DEFAULT_MODEL_NAME \in GOOGLE_MODELS
    /\ caller' = [caller EXCEPT ![i].at = "returned"]

\* an attempt that fails with e
LlmFail(i) ==
    /\ caller[i].at = "attempt"
    /\ Config.DEFAULT_MODEL_NAME \in GOOGLE_MODELS
    /\ \E e \in ServiceErrors : caller' = [caller EXCEPT ![i] = Caught(@, e)]

\* asyncio.sleep(sleep_time) is over: the next attempt of the loop
LlmWake(i) ==
    /\ caller[i].at = "sleep"
    /\ caller' = [caller EXCEPT ![i].at = "attempt", ![i].attempt = @ + 1]

RetryInit ==
    /\ Config \in [MAX_RETRIES : 1..MaxRetries,
                   BACKOFF_FACTOR : 1..MaxBackoff,
                   DEFAULT_MODEL_NAME : {"gemini-2.0-flash", "another-model"}]
    /\ bots = [n \in {root} |-> RootBot]
    /\ existing_labels = {}
    /\ pc = "loop"
    /\ pending = {}
    /\ spun = FALSE
    /\ event = NoEvent
    /\ lock = 0
    /\ caller = [i \in LlmCalls |-> NewCall]
    /\ script = NoScript
    /\ twin = <<>>

RetryNext ==
    /\ \E i \in LlmCalls :
           \/ LlmUnsupported(i)
           \/ LlmReturn(i)
           \/ LlmFail(i)
           \/ LlmWake(i)
    /\ UNCHANGED <<Config, bots, existing_labels, pc, pending, spun, event,
                   lock, script, twin>>

RetrySpec == RetryInit /\ [][RetryNext]_vars

----------------------------------------------------------------------------
(* Properties of the scheduler *)

\* the parent of bot n
Parent(n) == SubSeq(n, 1, Len(n) - 2)

\* C1: get_leaves(root) returns no done bot and no two bots of which one is
\* an ancestor of the other (or the other itself); a bot it returns has no
\* children, or all its children are done
C1_LeavesReady ==
    LET g == get_leaves(bots, root)
        L == g.leaves
    IN  /\ \A i \in DOMAIN L : ~bots[L[i]].done /\ ~g.bots[L[i]].done
        /\ \A i, j \in DOMAIN L : i # j => ~IsPrefix(L[i], L[j])
        /\ \A i \in DOMAIN L :
               \/ bots[L[i]].children = <<>>
               \/ \A c \in Range(bots[L[i]].children) : g.bots[c].done

\* a tree of which get_leaves returns several bots, one of them a bot whose
\* children are all done, and not the root, while a bot of the tree is live
\* above them
C1_Witness ==
    LET L == get_leaves(bots, root).leaves
    IN  /\ Len(L) >= 2
        /\ \E i \in DOMAIN L : bots[L[i]].children # <<>>
        /\ \E i \in DOMAIN L : bots[L[i]].children = <<>>
        /\ \E n \in DOMAIN bots : bots[n].done /\ ~bots[Parent(n)].done

LiveBefore(b) == {n \in DOMAIN b : \A m \in DOMAIN b : IsPrefix(m, n) => ~b[m].done}

----------------------------------------------------------------------------
(* Properties of step() under the driver *)

\* this transition is a call of step() on bot n
StepCalled(n) == event' # event /\ event'.op = "step" /\ event'.node = n

\* C3: under parallel_updates and sequential_updates step() is never called
\* on a done bot: no step() raises "called after being marked done"
C3_NoStepOnDone == event.raised # "done" /\ pc # "crashed"

\* the driver has stepped a bot while a sibling of its branch, not of its
\* group, was done under a parent that is not
C3_Witness ==
    /\ event.op = "step" /\ event.raised = "none"
    /\ \E n \in DOMAIN bots \ {root} :
           /\ bots[n].done /\ ~bots[Parent(n)].done
           /\ \E m \in Range(bots[Parent(n)].children) :
                  /\ ~bots[m].done /\ bots[m].key # bots[n].key
                  /\ event.node \in DOMAIN bots
                  /\ IsPrefix(m, event.node)

\* the guards of step() hold of bot n: it is done, or an L1-L4 bot at its cap
Guarded(b, n) ==
    b[n].done \/ (b[n].level # "Review" /\ b[n].iterations >= Cap(b[n].level))

\* C4: step() on a done bot, or on an L1-L4 bot whose iterations are at or
\* above its cap, raises before any phase function runs and leaves
\* current_llm_call_index, iterations, children, done and the draft as they
\* were
C4_GuardsRaise ==
    [][\A n \in DOMAIN bots :
          (StepCalled(n) /\ Guarded(bots, n))
              => /\ event'.raised # "none"
                 /\ event'.phase = "none" /\ ~event'.llm
                 /\ n \in DOMAIN bots'
                 /\ bots'[n].current_llm_call_index = bots[n].current_llm_call_index
                 /\ bots'[n].iterations = bots[n].iterations
                 /\ bots'[n].children = bots[n].children
                 /\ bots'[n].done = bots[n].done
                 /\ bots'[n].artifact = bots[n].artifact
                 /\ DOMAIN bots' = DOMAIN bots]_vars

\* step() was called on a done L1-L4 bot at its cap, and raised
C4_Witness ==
    /\ pc = "crashed"
    /\ event.raised = "done"
    /\ event.level # "Review"
    /\ bots[event.node].iterations >= Cap(event.level)
    /\ bots[event.node].children # <<>>

\* C5: the driver loop returns when the root reaches its cap and when the
\* root is done by a COMPLETE decision before the cap; once the root is done
\* the loop makes no iteration with an empty leaf list
C5_DriverReturns ==
    /\ ~spun
    /\ (bots[root].done /\ pc = "loop") => ~LoopCondition

\* the outcome of a done bot is accepted: COMPLETE on the final line (L2,
\* L3 and the root), all reviewers accepted (L4: incomplete = False)
AcceptedOutcome(b, n) ==
    IF b[n].level = "L4" THEN ~b[n].incomplete
    ELSE b[n].final_decision_response = "COMPLETE"

\* the last step() ran the terminal phase of bot n, whose cap is 1, and the
\* phase received the acceptance signal
AcceptedAtCapOne(n) ==
    /\ event.op = "step" /\ event.raised = "none" /\ event.node = n
    /\ n \in DOMAIN bots
    /\ event.level # "Review" /\ Cap(event.level) = 1
    /\ \/ event.phase \in FinalPhases /\ bots[n].final_decision_response = "COMPLETE"
       \/ /\ event.phase = "_review_evaluation"
          /\ \A c \in Range(bots[n].children) : bots[c].accepted

\* C7: a bot with cap 1 whose terminal phase of the first pass receives the
\* acceptance signal ends the step done and accepted (L4: incomplete =
\* False), and the next get_leaves does not return it
C7_CapOneAccepted ==
    \A n \in DOMAIN bots :
        AcceptedAtCapOne(n)
            => /\ bots[n].done
               /\ AcceptedOutcome(bots, n)
               /\ n \notin Range(get_leaves(bots, root).leaves)

\* C8: the drafting phase of a parent takes the draft of a child only if the
\* child's outcome is accepted (L1 from L2, L2 from L3, L3 from L4)
C8_OnlyAccepted ==
    \A c \in event.integrated : c \in DOMAIN bots => AcceptedOutcome(bots, c)

\* this transition is a step() of L3 bot n that runs _draft_subsection_code
\* while every math draft is None
DraftsAllNone(n) ==
    /\ StepCalled(n)
    /\ bots[n].level = "L3" /\ ~bots[n].done
    /\ event'.phase = "_draft_subsection_code"
    /\ \A c \in Range(bots'[n].children) : bots'[c].incomplete
    /\ \A k \in DOMAIN bots[n].blocks : bots[n].blocks[k] = NoneDraft

----------------------------------------------------------------------------
(* The two policies compared *)

\* C6: on the same deterministic responses and judgments parallel_updates
\* and sequential_updates reach the same terminal tree: the same surviving
\* bots with the same done flags, the same accepted / incomplete outcomes and
\* the same progress of every bot
C6_SameTerminalTree ==
    (twin # <<>> /\ pc = "exited") => Terminal(bots) = twin

----------------------------------------------------------------------------
(* Properties of the LabelManager *)

\* C10: no two get_label calls return the same token, and no returned token
\* was in existing_labels when its call took the lock for the check that
\* succeeded
C10_UniqueLabels ==
    \A i, j \in DOMAIN caller :
        \A k \in DOMAIN caller[i].got :
            /\ ~caller[i].got[k].known
            /\ \A l \in DOMAIN caller[j].got :
                   (i # j \/ k # l) => caller[i].got[k].token # caller[j].got[l].token

\* two coroutines have each been returned a token, and one of them, in a
\* further call, waits for the lock with a token the other was returned
C10_Witness ==
    \E i, j \in DOMAIN caller :
        /\ i # j
        /\ caller[i].got # <<>> /\ caller[j].got # <<>>
        /\ caller[j].op = "get_label" /\ caller[j].at = "acquire"
        /\ \E k \in DOMAIN caller[i].got : caller[i].got[k].token = caller[j].label

\* the tokens get_label calls have returned so far
Returned ==
    UNION {{caller[j].got[k].token : k \in DOMAIN caller[j].got} :
              j \in DOMAIN caller}

\* C11: existing_labels only grows, and a check_label(t) that takes the lock
\* once get_label has returned t (every check_label(t) that starts after the
\* return does) reads True
C11_ReturnedStaysKnown ==
    [][/\ existing_labels \subseteq existing_labels'
       /\ \A i \in DOMAIN caller :
              (/\ caller[i].op = "check_label" /\ caller[i].at = "acquire"
               /\ caller'[i].at = "return"
               /\ caller[i].label \in Returned)
                  => caller'[i].known]_vars

\* a coroutine's check_label was answered True for a token that a get_label
\* call of another coroutine had registered and returned
C11_Witness ==
    \E i, j \in DOMAIN caller :
        /\ i # j
        /\ \E a \in DOMAIN caller[i].answers, k \in DOMAIN caller[j].got :
               /\ caller[i].answers[a].label = caller[j].got[k].token
               /\ caller[i].answers[a].known
               /\ ~caller[j].got[k].known

----------------------------------------------------------------------------
(* Properties of the tournament *)

\* the matches of the host's list between candidates a and b
MatchesOf(a, b) ==
    {i \in DOMAIN bots[root].round_robin :
        {bots[root].round_robin[i].bot1, bots[root].round_robin[i].bot2} = {a, b}}

\* candidates a and b of the host belong to one intent group
SameGroup(a, b) ==
    Intent(bots, bots[root].level, a) = Intent(bots, bots[root].level, b)

\* the matches of the host's list that name one of its candidates name two
\* different candidates of one group
MatchesWithinGroups ==
    \A i \in DOMAIN bots[root].round_robin :
        LET m == bots[root].round_robin[i]
        IN  (m.bot1 \in Range(bots[root].children)
                \/ m.bot2 \in Range(bots[root].children))
            => /\ m.bot1 \in Range(bots[root].children)
               /\ m.bot2 \in Range(bots[root].children)
               /\ m.bot1 # m.bot2
               /\ SameGroup(m.bot1, m.bot2)

\* C12 as stated: after _create_round_robin there is exactly one match for
\* every two candidates of one group, and no match across groups or of a
\* candidate with itself
C12_AllPairs ==
    pc = "paired"
        => /\ \A a, b \in Range(bots[root].children) :
                  (a # b /\ SameGroup(a, b)) => Cardinality(MatchesOf(a, b)) = 1
           /\ MatchesWithinGroups

\* C12: after _create_round_robin there is exactly one match for every two
\* candidates of one group that are both eligible (in L1 and L2 every
\* candidate is, in L3 those with incomplete = False), no match that names
\* an incomplete L4 candidate, and no match across groups or of a candidate
\* with itself
C12_FullRoundRobin ==
    pc = "paired"
        => /\ \A a, b \in Range(bots[root].children) :
                  (a # b /\ SameGroup(a, b))
                      => Cardinality(MatchesOf(a, b)) =
                             IF bots[root].level = "L3"
                                /\ (bots[a].incomplete \/ bots[b].incomplete)
                             THEN 0 ELSE 1
           /\ MatchesWithinGroups

\* an L3 bot has paired a group of which three candidates are complete and
\* one is not, next to a match left from an earlier pass
C12_Witness ==
    /\ pc = "paired"
    /\ bots[root].level = "L3"
    /\ Len(bots[root].round_robin) = 4
    /\ Len(bots[root].children) = 4
    /\ \E c \in Range(bots[root].children) :
           /\ bots[c].incomplete
           /\ \A d \in Range(bots[root].children) :
                  /\ SameGroup(c, d)
                  /\ d # c => ~bots[d].incomplete

\* the matches of the host's list between two of its candidates, in order
LiveMatches ==
    SelectSeq(bots[root].round_robin,
              LAMBDA m : /\ m.bot1 \in Range(bots[root].children)
                         /\ m.bot2 \in Range(bots[root].children))

\* the host has three eligible candidates A, B, C of one group, and the
\* matches A-B, A-C, B-C, each won by its first candidate
ThreeWay ==
    LET kids == bots[root].children
    IN  /\ Len(kids) = 3
        /\ \A c \in Range(kids) : SameGroup(kids[1], c)
        /\ bots[root].level = "L3" => \A c \in Range(kids) : ~bots[c].incomplete
        /\ LiveMatches = <<NewMatch(<<kids[1], kids[2]>>, 1),
                           NewMatch(<<kids[1], kids[3]>>, 1),
                           NewMatch(<<kids[2], kids[3]>>, 1)>>

\* C13: with three eligible candidates A, B, C of one group and the matches
\* A-B, A-C, B-C in this order, A beating B, A beating C and B beating C,
\* every _compute_round_robin_winners leaves A as the only child
C13_TransitiveWinner ==
    [][(pc = "paired" /\ pc' = "chosen" /\ ThreeWay)
          => bots'[root].children = <<bots[root].children[1]>>]_vars

\* an L3 bot is left with the candidate A that won both its matches, B
\* having beaten C, after a match of an earlier pass
C13_Witness ==
    LET rr == bots[root].round_robin
    IN  /\ pc = "chosen"
        /\ bots[root].level = "L3"
        /\ Len(bots[root].children) = 1
        /\ Len(rr) = 4
        /\ \A i \in 2..4 : rr[i].result = 1
        /\ rr[2].bot1 = bots[root].children[1]
        /\ rr[3].bot1 = bots[root].children[1]
        /\ rr[4].bot1 = rr[2].bot2 /\ rr[4].bot2 = rr[3].bot2

\* the eligible candidates of group k of the host, in children order: all
\* of them in L1 and L2, the complete ones in L3
Eligible(k) ==
    LET g == Group(bots, bots[root].level, bots[root].children, k)
    IN  IF bots[root].level = "L3" THEN Complete(bots, g) ELSE g

\* the intent keys of the host's candidates
HostIntents == Range(IntentsOf(bots, bots[root].level, bots[root].children))

\* C14: of the eligible candidates of a group, _compute_round_robin_winners
\* keeps one of highest final rating, and the first such in children order;
\* when no processed match names a candidate of the group they all have the
\* baseline 1500 and the first eligible candidate is kept
C14_FirstOfBest ==
    [][(pc = "paired" /\ pc' = "chosen")
          => \A k \in HostIntents :
                 LET e == Eligible(k)
                     r == Ratings(bots[root].children, bots[root].round_robin)
                 IN  e # <<>>
                     => \E i \in DOMAIN e :
                            /\ e[i] \in Range(bots'[root].children)
                            /\ \A j \in DOMAIN e : r[e[j]] <= r[e[i]]
                            /\ \A j \in 1..(i - 1) : r[e[j]] < r[e[i]]
                            /\ (\A m \in Range(LiveMatches) :
                                   /\ m.bot1 \notin Range(e)
                                   /\ m.bot2 \notin Range(e))
                               => /\ i = 1
                                  /\ \A j \in DOMAIN e : r[e[j]] = 1500 * Unit]_vars

\* three candidates of one group whose three matches were all ties: the
\* first is the one kept
C14_Witness ==
    LET rr == bots[root].round_robin
    IN  /\ pc = "chosen"
        /\ Len(rr) = 3
        /\ \A i \in 1..3 : rr[i].result = 3
        /\ rr[1].bot1 # rr[3].bot1
        /\ bots[root].children = <<rr[1].bot1>>

\* the ratings of the host's candidates after the first i matches of its list
RatingsUpTo(i) ==
    Ratings(bots[root].children, SubSeq(bots[root].round_robin, 1, i))

\* the ratings before the first match and after each match, in order
Trail == [i \in 1..(Len(bots[root].round_robin) + 1) |-> RatingsUpTo(i - 1)]

\* match i of the host's list is between two of its candidates
Processed(i) ==
    /\ bots[root].round_robin[i].bot1 \in Range(bots[root].children)
    /\ bots[root].round_robin[i].bot2 \in Range(bots[root].children)

\* the sum of the two rating changes of match i
ChangeSum(trail, i) ==
    LET m == bots[root].round_robin[i]
    IN  (trail[i + 1][m.bot1] - trail[i][m.bot1])
            + (trail[i + 1][m.bot2] - trail[i][m.bot2])

RECURSIVE SumOver(_, _)
SumOver(ratings, kids) ==
    IF kids = <<>> THEN 0 ELSE ratings[Head(kids)] + SumOver(ratings, Tail(kids))

\* how far the sum of the final ratings is from 1500 for each candidate
SumDrift(trail) ==
    SumOver(trail[Len(trail)], bots[root].children)
        - 1500 * Unit * Len(bots[root].children)

\* how far e1 + e2 of match i is from 1
ExpectedDrift(trail, i) ==
    LET m == bots[root].round_robin[i]
    IN  Expected(trail[i][m.bot1], trail[i][m.bot2])
            + Expected(trail[i][m.bot2], trail[i][m.bot1]) - Unit

\* the distance between neighbouring floats at the larger rating of match i
RatingUlp(trail, i) ==
    LET m == bots[root].round_robin[i]
    IN  IF trail[i + 1][m.bot1] >= trail[i + 1][m.bot2]
        THEN Ulp(trail[i + 1][m.bot1])
        ELSE Ulp(trail[i + 1][m.bot2])

RECURSIVE UlpsUpTo(_, _)
UlpsUpTo(trail, i) ==
    IF i = 0 THEN 0
    ELSE (IF Processed(i) THEN RatingUlp(trail, i) ELSE 0) + UlpsUpTo(trail, i - 1)

Within(x, bound) == -bound <= x /\ x <= bound

\* a tie between two candidates of equal rating changes neither rating
TieKeepsRatings(trail) ==
    \A i \in DOMAIN bots[root].round_robin :
        LET m == bots[root].round_robin[i]
        IN  (Processed(i) /\ m.result = 3 /\ trail[i][m.bot1] = trail[i][m.bot2])
            => trail[i + 1] = trail[i]

Members(k) ==
    {c \in Range(bots[root].children) : Intent(bots, bots[root].level, c) = k}

\* C16: _compute_round_robin_winners leaves exactly one child per intent key
\* present before, a member of that key's group; under L3 it is a complete
\* candidate of highest rating when the group has a complete one, and a
\* member with incomplete = True only when every member is incomplete
C16_OnePerIntent ==
    [][(pc = "paired" /\ pc' = "chosen")
          => LET kids == bots'[root].children
                 r == Ratings(bots[root].children, bots[root].round_robin)
             IN  /\ Len(kids) = Cardinality(HostIntents)
                 /\ \A k \in HostIntents :
                        \E i \in DOMAIN kids :
                            /\ kids[i] \in Members(k)
                            /\ \A j \in DOMAIN kids :
                                   kids[j] \in Members(k) => j = i
                            /\ bots'[kids[i]] = bots[kids[i]]
                            /\ bots[root].level = "L3"
                               => IF \E c \in Members(k) : ~bots[c].incomplete
                                  THEN /\ ~bots[kids[i]].incomplete
                                       /\ \A c \in Members(k) :
                                              ~bots[c].incomplete
                                              => r[c] <= r[kids[i]]
                                  ELSE bots[kids[i]].incomplete]_vars

\* an L3 host left with two children of different keys: a complete one that
\* came out of matches, and an incomplete one kept for a group without a
\* complete candidate
C16_Witness ==
    LET kids == bots[root].children
    IN  /\ pc = "chosen"
        /\ bots[root].level = "L3"
        /\ Len(kids) = 2
        /\ Intent(bots, "L3", kids[1]) # Intent(bots, "L3", kids[2])
        /\ \E i, j \in 1..2 :
               /\ bots[kids[i]].incomplete
               /\ ~bots[kids[j]].incomplete
               /\ \E m \in Range(bots[root].round_robin) :
                      kids[j] \in {m.bot1, m.bot2}

\* the table when the host's list holds only the matches between two of its
\* current candidates
Pruned == [bots EXCEPT ![root].round_robin = LiveMatches]

\* the fan-out of its parent that made candidate c
MadeIn(c) == c[Len(c) - 1]

\* C17: a match that names a bot outside the current children is skipped:
\* the ratings are those computed from the list without such matches, and so
\* are the children _compute_round_robin_winners leaves
C17_StaleSkipped ==
    /\ [](Ratings(bots[root].children, bots[root].round_robin)
              = Ratings(bots[root].children, LiveMatches))
    /\ [][(pc = "paired" /\ pc' = "chosen")
             => \E choice \in Choices(bots, root) :
                    /\ bots'[root].children = Winners(Pruned, root, choice)
                    /\ bots'[root].children = Winners(bots, root, choice)]_vars

\* an L3 host in a later pass: its list starts with a match of the earlier
\* pass, followed by decided matches of the current candidates, and the
\* winners were computed
C17_Witness ==
    LET rr == bots[root].round_robin
        kids == bots[root].children
    IN  /\ pc = "chosen"
        /\ bots[root].level = "L3"
        /\ Len(rr) > 1
        /\ MadeIn(rr[1].bot1) # MadeIn(kids[1])
        /\ MadeIn(rr[1].bot2) # MadeIn(kids[1])
        /\ \E i \in 2..Len(rr) : rr[i].result = 2 /\ rr[i].bot2 = kids[1]

----------------------------------------------------------------------------
(* Properties of llm_call *)

\* the attempts call f has made
Attempts(f) == IF f.at = "attempt" THEN f.attempt ELSE f.attempt + 1

----------------------------------------------------------------------------
(* Properties of step() *)

\* len(llm_call_sequence) of a bot of this level
PhaseCount(level) == Len(PhaseSeq(level))

\* C19: between step() calls the index of every bot lies in
\* 0 .. phaseCount - 1, where phaseCount is 3 for L4, 5 for ReviewBot, 5 or 6
\* for L1 and L2 and 7 or 8 for L3 (the larger when the level holds a
\* tournament)
C19_IndexInRange ==
    /\ PhaseCount("L4") = 3
    /\ PhaseCount("Review") = 5
    /\ PhaseCount("L1") = IF Config.NUM_L2_BOTS > 1 THEN 6 ELSE 5
    /\ PhaseCount("L2") = IF Config.NUM_L3_BOTS > 1 THEN 6 ELSE 5
    /\ PhaseCount("L3") = IF Config.NUM_L4_BOTS > 1 THEN 8 ELSE 7
    /\ \A n \in DOMAIN bots :
           /\ bots[n].current_llm_call_index >= 0
           /\ bots[n].current_llm_call_index < PhaseCount(bots[n].level)

\* the last step() ran the final phase of a bot that goes on: its index is
\* back at 0
C19_Witness ==
    /\ event.op = "step"
    /\ event.raised = "none"
    /\ event.phase \in FinalPhases
    /\ event.node \in DOMAIN bots
    /\ ~bots[event.node].done
    /\ bots[event.node].iterations > 0
    /\ bots[event.node].current_llm_call_index = 0

\* C20: done never goes back from True to False: a bot that is done stays
\* done for as long as it is in the tree, whatever operation comes later,
\* an L3 restart included
C20_DoneMonotonic ==
    [][\A n \in DOMAIN bots \cap DOMAIN bots' :
           bots[n].done => bots'[n].done]_vars

\* the last step() was a _draft_subsection_code that asked for a restart:
\* the L3 bot is back at its first phase and its candidates are still done
C20_Witness ==
    /\ event.op = "step"
    /\ event.phase = "_draft_subsection_code"
    /\ event.raised = "none"
    /\ event.node \in DOMAIN bots
    /\ bots[event.node].current_llm_call_index = 0
    /\ ~bots[event.node].done
    /\ bots[event.node].children # <<>>
    /\ \A c \in Range(bots[event.node].children) : bots[c].done

----------------------------------------------------------------------------
(* Properties of the outcomes *)

\* L4 bot c has used up its iterations and a reviewer of its last pass did
\* not accept
Exhausted(b, c) ==
    /\ b[c].level = "L4"
    /\ b[c].iterations >= Config.L4_REASONING_STEPS
    /\ \E v \in Range(b[c].children) : ~b[v].accepted

\* C21: an L4 bot whose _review_evaluation brings iterations to
\* L4_REASONING_STEPS while a reviewer has not accepted ends the step done
\* and incomplete; the L3 parent's _draft_subsection_code then records None
\* for its instruction and does not integrate it
C21_ExhaustedIsOmitted ==
    [][\A n \in DOMAIN bots :
          /\ (/\ StepCalled(n)
              /\ event'.phase = "_review_evaluation"
              /\ Exhausted(bots', n))
             => bots'[n].done /\ bots'[n].incomplete
          /\ (StepCalled(n) /\ event'.phase = "_draft_subsection_code")
             => \A c \in Range(bots[n].children) :
                    Exhausted(bots, c)
                        => /\ bots[c].done /\ bots[c].incomplete
                           /\ bots[c].key[3] \in DOMAIN bots'[n].blocks
                           /\ bots'[n].blocks[bots[c].key[3]] = NoneDraft
                           /\ c \notin event'.integrated]_vars

\* an L3 bot has run its drafting phase over a child that went through two
\* passes, is out of iterations with a reviewer that did not accept, and is
\* recorded as None
C21_Witness ==
    /\ event.op = "step" /\ event.phase = "_draft_subsection_code"
    /\ event.integrated = {}
    /\ event.node \in DOMAIN bots
    /\ Config.L4_REASONING_STEPS > 1
    /\ \E c \in Range(bots[event.node].children) :
           /\ Exhausted(bots, c)
           /\ bots[c].done /\ bots[c].incomplete
           /\ bots[event.node].blocks[bots[c].key[3]] = NoneDraft

\* this transition is a step() of L3 bot n whose phase set restart: the
\* drafting phase that returns before its generation call
SetRestart(n) ==
    /\ bots[n].level = "L3"
    /\ event'.phase = "_draft_subsection_code"
    /\ ~event'.llm

\* C22: a step() that does not raise runs one phase function, the one at
\* the bot's current_llm_call_index, and leaves the index at
\* (old index + 1) mod phaseCount; an L3 step whose phase set restart
\* leaves it at 0
C22_OnePhasePerStep ==
    [][\A n \in DOMAIN bots :
          (StepCalled(n) /\ event'.raised = "none")
              => /\ event'.phase
                        = PhaseSeq(bots[n].level)[bots[n].current_llm_call_index + 1]
                 /\ n \in DOMAIN bots'
                 /\ bots'[n].current_llm_call_index
                        = IF SetRestart(n) THEN 0
                          ELSE (bots[n].current_llm_call_index + 1)
                                   % PhaseCount(bots[n].level)]_vars

\* an L2 bot that holds a tournament has run its fan-out phase: its index
\* is at _create_round_robin
C22_Witness ==
    /\ event.op = "step" /\ event.raised = "none"
    /\ event.level = "L2"
    /\ event.phase = "_format_instructions_for_L3_bots"
    /\ event.node \in DOMAIN bots
    /\ bots[event.node].current_llm_call_index = 3
    /\ PhaseOf(bots, event.node) = "_create_round_robin"

----------------------------------------------------------------------------
(* Properties of the two policies *)

\* no bot occurs twice in the list
NoRepeat(leaves) ==
    \A i, j \in DOMAIN leaves : i # j => leaves[i] # leaves[j]

\* C23: under parallel_updates a round makes one task for every bot of its
\* get_leaves list and for no other; step() is called only from a task of
\* the running round, once for each, and runs one phase of the bot; the
\* leaves are computed again only when no task is left
C23_OneStepPerLeaf ==
    [][Config.PARALLEL
          => /\ (pc = "loop" /\ pc' = "gather")
                => \E g \in {get_leaves(bots, root)} :
                       /\ NoRepeat(g.leaves)
                       /\ pending' = Range(g.leaves)
                       /\ event' = event
             /\ \A n \in DOMAIN bots :
                    StepCalled(n)
                        => /\ pc = "gather"
                           /\ n \in pending
                           /\ pending' = pending \ {n}
                           /\ event'.raised = "none"
                              => event'.phase = PhaseOf(bots, n)
             /\ pc = "gather"
                => /\ event' # event
                   /\ pc' = "loop" => pending' = {}
                   /\ pc' = "gather" => pending' # {}]_vars

\* in a running round one of two sibling leaves has made its step and the
\* other has yet to
C23_Witness ==
    /\ Config.PARALLEL
    /\ pc = "gather"
    /\ event.op = "step" /\ event.raised = "none"
    /\ event.node \in DOMAIN bots
    /\ event.node \notin pending
    /\ \E m \in pending :
           /\ m # root /\ event.node # root
           /\ Parent(m) = Parent(event.node)
           /\ bots[event.node].current_llm_call_index
                  = bots[m].current_llm_call_index + 1

\* C24: two step() executions of one bot never overlap.  The steps in
\* flight are the tasks of the running round; the leaves are computed only
\* when no task is left, the list names no bot twice, a bot is stepped only
\* through its own task, which ends with that step, and sequential_updates
\* has no task in flight when it calls step()
C24_NoOverlap ==
    /\ [](/\ pc = "loop" => /\ pending = {}
                           /\ NoRepeat(get_leaves(bots, root).leaves)
          /\ pc = "gather" => Config.PARALLEL /\ pending # {}
          /\ ~Config.PARALLEL => pending = {})
    /\ [][\A n \in DOMAIN bots :
             StepCalled(n)
                 => /\ \A m \in DOMAIN bots : StepCalled(m) => m = n
                    /\ IF Config.PARALLEL
                       THEN n \in pending /\ n \notin pending'
                       ELSE pc = "loop" /\ pending = {} /\ pending' = {}]_vars

\* a round of parallel_updates with the steps of two bots in flight, after
\* an earlier round has ended
C24_Witness ==
    /\ pc = "gather"
    /\ Cardinality(pending) >= 2
    /\ event.op = "step"
    /\ event.node \in pending

\* the first bot, in depth-first children order below n, that is not done
\* and has no child that is not done, as a list of one bot; the empty list
\* when there is none
RECURSIVE FirstLeaf(_, _)
RECURSIVE FirstLeafFrom(_, _, _)
FirstLeaf(b, n) ==
    IF b[n].done THEN <<>>
    ELSE IF \A c \in Range(b[n].children) : b[c].done THEN <<n>>
    ELSE FirstLeafFrom(b, b[n].children, 1)

FirstLeafFrom(b, kids, i) ==
    IF i > Len(kids) THEN <<>>
    ELSE IF FirstLeaf(b, kids[i]) # <<>> THEN FirstLeaf(b, kids[i])
    ELSE FirstLeafFrom(b, kids, i + 1)

\* C25: under sequential_updates every iteration computes the leaves and
\* calls step() on one bot, the first of get_leaves(root) in depth-first
\* children order; with an empty list it calls step() on no bot
C25_FirstLeafOnly ==
    [][(~Config.PARALLEL /\ pc = "loop")
          => \E g \in {get_leaves(bots, root)} :
                 /\ \A n \in DOMAIN bots :
                        StepCalled(n)
                            => /\ LoopCondition
                               /\ g.leaves # <<>>
                               /\ n = g.leaves[1]
                               /\ <<n>> = FirstLeaf(g.bots, root)
                               /\ \A m \in DOMAIN bots : StepCalled(m) => m = n
                 /\ g.leaves = <<>>
                    => /\ event' = event
                       /\ FirstLeaf(g.bots, root) = <<>>
                 /\ (LoopCondition /\ g.leaves # <<>>) => StepCalled(g.leaves[1])]_vars

\* sequential_updates has stepped the first of two sibling leaves; the
\* second, later in the children order, has not made a step yet
C25_Witness ==
    /\ ~Config.PARALLEL
    /\ event.op = "step" /\ event.raised = "none"
    /\ event.node \in DOMAIN bots /\ event.node # root
    /\ \E i, j \in DOMAIN bots[Parent(event.node)].children :
           LET kids == bots[Parent(event.node)].children
           IN  /\ i < j
               /\ kids[i] = event.node
               /\ ~bots[kids[j]].done
               /\ bots[kids[j]].current_llm_call_index = 0
               /\ bots[kids[j]].iterations = 0

----------------------------------------------------------------------------
(* Properties of the fan-out and the drafting phases *)

DraftPhases == {"_draft_document_code", "_draft_section_code"}

\* C26: an L1Bot or L2Bot whose fan-out phase parsed no instruction, and so
\* made no child, starts again at phase 0, and its drafting phase never runs
\* with no child to integrate
C26_EmptyFanOutRetries ==
    [][\A n \in DOMAIN bots :
          (StepCalled(n) /\ event'.raised = "none" /\ bots[n].level \in {"L1", "L2"})
              => /\ (event'.phase \in FanOutPhases /\ bots'[n].children = <<>>)
                        => bots'[n].current_llm_call_index = 0
                 /\ event'.phase \in DraftPhases => bots[n].children # <<>>]_vars

\* the table a step() of the driver starts from: the one get_leaves left
BeforeStep == IF pc = "gather" THEN bots ELSE get_leaves(bots, root).bots

\* the responses under which step() of n takes table b0 to the table bots'
Explains(b0, n) ==
    {r \in Answers(b0, existing_labels, n) :
        Step(b0, existing_labels, n, r).bots = bots'}

\* C27: after _draft_document_code (L1) and _draft_section_code (L2) the
\* blocks of the bot hold only titles the generated draft names as a
\* placeholder; a block whose title the draft does not name is gone, whether
\* a child brought it or the blocks held it before, and a block that is kept
\* is the one the merge of the children's drafts gave
C27_OnlyReferencedBlocks ==
    [][\A n \in DOMAIN bots :
          (StepCalled(n) /\ event'.raised = "none" /\ event'.phase \in DraftPhases)
              => \E b0 \in {BeforeStep} :
                     /\ Explains(b0, n) # {}
                     /\ \A r \in Explains(b0, n) :
                            /\ DOMAIN bots'[n].blocks \subseteq r.used
                            /\ \A t \in DOMAIN b0[n].blocks \ r.used :
                                   t \notin DOMAIN bots'[n].blocks
                            /\ \A c \in event'.integrated :
                                   /\ b0[c].artifact.title \notin r.used
                                          => b0[c].artifact.title
                                                 \notin DOMAIN bots'[n].blocks
                                   /\ b0[c].artifact.title \in r.used
                                          => b0[c].artifact.title
                                                 \in DOMAIN bots'[n].blocks]_vars

\* a drafting phase has run that took the titled draft of a child into the
\* blocks and discarded it again, the generated draft not naming its title
C27_Witness ==
    /\ event.op = "step" /\ event.raised = "none"
    /\ event.phase \in DraftPhases
    /\ event.node \in DOMAIN bots
    /\ \E c \in event.integrated :
           /\ c \in DOMAIN bots
           /\ bots[c].artifact.title # 0
           /\ bots[c].artifact.title \notin DOMAIN bots[event.node].blocks

----------------------------------------------------------------------------
(* Properties of the LabelManager built from a document *)

Characters == 1..AlphabetSize

\* the labels x, of one or more characters, that the document holds as the
\* text \label{x}
Occurring(doc) ==
    {SubSeq(doc, i + 1, j - 1) : <<i, j>> \in
        {p \in (DOMAIN doc) \X (DOMAIN doc) :
            /\ p[1] + 1 < p[2]
            /\ doc[p[1]] = Opener
            /\ doc[p[2]] = Closer
            /\ \A k \in (p[1] + 1)..(p[2] - 1) : doc[k] \in Characters}}

\* the labels the document the LabelManager was built from holds
DocumentLabels == Occurring(bots[root].artifact)

\* C28: a LabelManager built from a document knows every label x the
\* document holds as \label{x}: the registry holds it, every check_label(x)
\* answers True, and get_label never returns it
C28_DocumentLabelsKnown ==
    /\ DocumentLabels \subseteq existing_labels
    /\ \A i \in Callers :
           /\ \A k \in DOMAIN caller[i].answers :
                  caller[i].answers[k].label \in DocumentLabels
                      => caller[i].answers[k].known
           /\ \A k \in DOMAIN caller[i].got :
                  caller[i].got[k].token \notin DocumentLabels

\* C29: with fair draws and a fair lock, a get_label call returns, unless
\* the registry comes to hold every token of length NUM_LABEL_CHAR; the
\* lock is released after every check, the one of a token that was
\* registered already included: a caller back in its loop does not hold the
\* lock, a lock taken is released, and a caller waiting for the lock gets it
C29_GetLabelReturns ==
    /\ \A i \in Callers :
           /\ (caller[i].op = "get_label")
                  ~> (caller[i].op = "none" \/ Tokens \subseteq existing_labels)
           /\ (lock = i) ~> (lock = 0)
           /\ (caller[i].at = "acquire") ~> (lock = i)
    /\ [](\A i \in Callers :
             /\ lock = i => caller[i].at \in {"return", "loop"}
             /\ caller[i].at \in {"return", "loop"} => lock = i)

\* the token a caller drew was registered already: the caller is back in
\* its loop, without the lock, which another caller holds
C29_Witness ==
    \E i, j \in Callers :
        /\ i # j
        /\ caller[i].op = "get_label" /\ caller[i].at = "retry"
        /\ caller[i].label \in existing_labels
        /\ lock = j
        /\ Tokens \ existing_labels # {}

----------------------------------------------------------------------------
(* Properties of llm_call *)

\* e is a ServerError whose text holds both 503 and UNAVAILABLE
Unavailable503(e) == e.class = "ServerError" /\ e.has503 /\ e.unavailable

\* C30: a failure of an attempt that is not a ServerError holding both 503
\* and UNAVAILABLE is raised to the caller by that attempt: no sleep is
\* made for it, and the call makes no further attempt
C30_FatalRaisedAtOnce ==
    [][\A i \in LlmCalls :
          /\ (caller[i].at = "attempt" /\ caller'[i] # caller[i]
                  /\ Len(caller'[i].failures) = Len(caller[i].failures) + 1
                  /\ ~Unavailable503(caller'[i].failures[Len(caller'[i].failures)]))
                 => /\ caller'[i].at = "raised"
                    /\ caller'[i].raised
                           = caller'[i].failures[Len(caller'[i].failures)]
                    /\ caller'[i].attempt = caller[i].attempt
                    /\ caller'[i].waits = caller[i].waits
          /\ caller[i].at = "raised" => caller'[i] = caller[i]]_vars

\* after a retry, an attempt failed with a ServerError that lacks one of
\* the two marks, and the call raised it without another sleep
C30_Witness ==
    \E i \in LlmCalls :
        /\ caller[i].at = "raised"
        /\ caller[i].attempt >= 1
        /\ caller[i].attempt < Config.MAX_RETRIES - 1
        /\ caller[i].raised.class = "ServerError"
        /\ ~Unavailable503(caller[i].raised)
        /\ Len(caller[i].waits) = caller[i].attempt

----------------------------------------------------------------------------
(* Properties of the frame of step() and of get_leaves *)

\* C31: a step() of bot n changes no other bot: every bot that was there
\* before and is there after, the parent of n, its siblings and the other
\* bots stepped in the same round among them, keeps all its fields; the bots
\* that come or go are below n (its children list is its own field)
C31_StepFrame ==
    [][\A n \in DOMAIN bots :
          StepCalled(n)
              => \E b0 \in {BeforeStep} :
                     /\ n \in DOMAIN bots'
                     /\ \A m \in (DOMAIN b0 \cap DOMAIN bots') \ {n} :
                            bots'[m] = b0[m]
                     /\ \A m \in (DOMAIN b0 \ DOMAIN bots') \cup (DOMAIN bots' \ DOMAIN b0) :
                            m # n /\ IsPrefix(n, m)
                     /\ \A m \in pending \ {n} : m \in DOMAIN bots' /\ bots'[m] = bots[m]]_vars

\* a concurrent round in which a step() has changed its own bot while the
\* task of a sibling is still to run
C31_Witness ==
    /\ pc = "gather"
    /\ event.op = "step" /\ event.raised = "none"
    /\ event.node # root
    /\ event.node \in DOMAIN bots
    /\ bots[event.node].current_llm_call_index > 0
    /\ \E m \in pending :
           /\ m # event.node
           /\ Parent(m) = Parent(event.node)

----------------------------------------------------------------------------
(* Properties of the program from start-up to the save *)

\* C32: when a step() raises during a round the driver stops, and the run
\* ends without the document written to Config.DOC_SAVE, with and without
\* the visualizer
C32_NoSaveAfterRaise ==
    /\ [](event.raised # "none" => pc \in {"crashed", "aborted"})
    /\ [][event.raised # "none" => event' = event /\ bots' = bots]_vars

(* C33: whenever a bot, the root in particular, is not done, get_leaves of *)
(* it is not empty: after the grouping pass the bot is a leaf itself or    *)
(* has a child that is not done and whose own traversal yields a leaf, so  *)
(* a live root always leaves the driver something to advance.              *)
C33_LiveRootHasLeaf ==
    \A n \in DOMAIN bots :
        ~bots[n].done
            => \E g \in {get_leaves(bots, n)} :
                   /\ g.leaves # <<>>
                   /\ \A i \in DOMAIN g.leaves : IsPrefix(n, g.leaves[i])
                   /\ \/ g.leaves = <<n>>
                      \/ \E c \in Range(bots[n].children) :
                             /\ ~Propagate(bots, n)[c].done
                             /\ get_leaves(Propagate(bots, n), c).leaves # <<>>

\* a live root all of whose children are done, one of them only because a
\* sibling of its group was
C33_Witness ==
    /\ pc = "loop"
    /\ ~bots[root].done
    /\ bots[root].children # <<>>
    /\ \E c \in Range(bots[root].children) : ~bots[c].done
    /\ \A c \in Range(bots[root].children) : Propagate(bots, root)[c].done
    /\ get_leaves(bots, root).leaves = <<root>>

(* Properties of the iteration caps *)

(* C34: under the driver every L1, L2, L3 or L4 bot that is not done has   *)
(* made fewer iterations than the cap of its level, and no step() raises   *)
(* the RuntimeError "Iteration limit reached".                             *)
C34_BelowCap ==
    /\ \A n \in DOMAIN bots :
           bots[n].level # "Review" /\ ~bots[n].done
               => bots[n].iterations < Cap(bots[n].level)
    /\ event.raised # "limit"

\* a bot in its second pass, below a cap of 2, next to a bot that its cap ended
C34_Witness ==
    /\ \E n \in DOMAIN bots :
           /\ bots[n].level # "Review"
           /\ ~bots[n].done
           /\ bots[n].iterations = 1
           /\ bots[n].final_decision_response = "CONTINUE"
    /\ \E m \in DOMAIN bots :
           /\ bots[m].level \in {"L2", "L3", "L4"}
           /\ bots[m].done
           /\ bots[m].iterations = Cap(bots[m].level)

(* Properties of the reviews of an L4 bot *)

\* every reviewer of bot n has run its five phases and ended by its own step
Reviewed(b, n) ==
    \A c \in Range(b[n].children) :
        b[c].done /\ b[c].iterations = Len(PhaseSeq("Review"))

(* C35: under both policies, when an L4 bot runs _review_evaluation, every *)
(* one of its reviewers has executed all five review phases; a reviewer is *)
(* done only after its own _final_summary and is never ended by the        *)
(* grouping pass of get_leaves while phases remain.                        *)
C35_AllReviewed ==
    /\ [][\A n \in DOMAIN bots :
              StepCalled(n) /\ event'.phase = "_review_evaluation"
                            /\ event'.raised = "none"
                  => Reviewed(BeforeStep, n)]_vars
    /\ [](\A c \in DOMAIN bots :
              bots[c].level = "Review" /\ bots[c].done
                  => bots[c].iterations = Len(PhaseSeq("Review")))

(* Properties of the runs in which every call returns *)

(* C36: when every generation call returns and the scheduler is fair,      *)
(* every bot made in the tree becomes done after a bounded number of       *)
(* step() calls; an L3 bot whose candidates are rejected on every pass     *)
(* ends as well.  Hence from some point on every bot of the tree is done.  *)
C36_EveryBotEnds == <>[](\A n \in DOMAIN bots : bots[n].done)

(* Properties of the restart of an L3 bot *)

(* C37: _draft_subsection_code of an L3 bot sets restart exactly when none *)
(* of the bot's current children is complete; a draft recorded in          *)
(* math_drafts during an earlier pass neither suppresses the restart nor   *)
(* is integrated in place of the current children's drafts.                *)
C37_RestartIffNoneComplete ==
    [][\A n \in DOMAIN bots :
          StepCalled(n) /\ event'.phase = "_draft_subsection_code"
                        /\ event'.raised = "none"
              => \E b0 \in {BeforeStep} :
                     /\ ~event'.llm <=> \A c \in Range(b0[n].children) : b0[c].incomplete
                     /\ \A k \in DOMAIN bots'[n].blocks :
                            bots'[n].blocks[k] # NoneDraft
                                => bots'[n].blocks[k].src \in Range(bots'[n].children)]_vars

(* Properties of what get_leaves changes *)

\* the bots get_leaves(root) leaves other than they were
Touched == {m \in DOMAIN bots : get_leaves(bots, root).bots[m] # bots[m]}

(* C38: get_leaves changes nothing but the done flag of children that are  *)
(* in a group of more than one member of which one is done: no bot's phase *)
(* index, iterations, children, incomplete or accepted flag changes, no    *)
(* bot is added or removed, and no child in a group of one, or in a group  *)
(* without a done member, is set done.                                     *)
C38_LeavesFrame ==
    \E g \in {get_leaves(bots, root)} :
        /\ DOMAIN g.bots = DOMAIN bots
        /\ \A m \in DOMAIN bots :
               g.bots[m] # bots[m]
                   => /\ g.bots[m] = [bots[m] EXCEPT !.done = TRUE]
                      /\ \E p \in DOMAIN bots :
                             /\ m \in Range(bots[p].children)
                             /\ \E d, e \in Range(bots[p].children) :
                                    /\ d # m
                                    /\ bots[d].key = bots[m].key
                                    /\ bots[e].key = bots[m].key
                                    /\ bots[e].done

\* a call that sets a child done next to a done sibling of its group and
\* leaves the lone child of another bot, which is not done, as it was
C38_Witness ==
    /\ Touched # {}
    /\ \E p \in DOMAIN bots :
           /\ ~bots[p].done
           /\ Len(bots[p].children) = 1
           /\ ~bots[bots[p].children[1]].done
           /\ bots[p].children[1] \notin Touched

(* Properties of the outcome of an L4 bot *)

(* C39: between step() calls, an L4 bot with incomplete = False is done,   *)
(* has made fewer iterations than L4_REASONING_STEPS, and every one of its *)
(* current reviewers has accepted = True; a reviewer with accepted = True  *)
(* is done; an L4 bot that get_leaves sets done keeps incomplete = True.   *)
C39_CompleteL4 ==
    /\ [](\A n \in DOMAIN bots :
              /\ bots[n].level = "L4" /\ ~bots[n].incomplete
                     => /\ bots[n].done
                        /\ bots[n].iterations < Config.L4_REASONING_STEPS
                        /\ \A c \in Range(bots[n].children) : bots[c].accepted
              /\ bots[n].level = "Review" /\ bots[n].accepted => bots[n].done)
    /\ [][\A n \in DOMAIN bots \cap DOMAIN bots' :
              (bots[n].level = "L4" /\ ~bots[n].done /\ bots'[n].done
                                   /\ ~StepCalled(n))
                  => bots[n].incomplete /\ bots'[n].incomplete]_vars

\* a complete L4 bot next to a candidate of its group that get_leaves ended
\* before its cap
C39_Witness ==
    \E n, m \in DOMAIN bots :
        /\ bots[n].level = "L4" /\ ~bots[n].incomplete
        /\ bots[m].level = "L4" /\ m # n /\ Parent(m) = Parent(n)
        /\ bots[m].done /\ bots[m].incomplete
        /\ bots[m].iterations < Config.L4_REASONING_STEPS

(* Properties of the label loop of an L3 bot *)

\* bot i is behind its label loop
LoopOver(i) ==
    caller[i].at = "idle" /\ caller[i].stage = "for" /\ caller[i].todo = {}

\* the tokens bot i put in the place of label l
TokensFor(i, l) == {p[2] : p \in {q \in caller[i].renamed : q[1] = l}}

(* C40: after the label loop of _draft_subsection_code every label the     *)
(* draft names is in the registry; and two L3 bots that draft at the same  *)
(* time and both find the same label unregistered end up with two          *)
(* different tokens, each new to the registry when it was allocated,       *)
(* although check_label and get_label take the lock separately.            *)
C40_LabelsRegistered ==
    /\ \A i \in Callers :
           LoopOver(i) => FindAll(caller[i].draft, 1) \subseteq existing_labels
    /\ \A i, j \in Callers :
           i # j => \A l \in DOMAIN [q \in caller[i].renamed |-> 0] :
                       TokensFor(i, l[1]) \cap TokensFor(j, l[1]) = {}
    /\ \A i \in Callers :
           \A k \in DOMAIN caller[i].got :
               /\ ~caller[i].got[k].known
               /\ caller[i].got[k].token \in existing_labels

====
